---- MODULE Spec2Model ----
(***************************************************************************)
(* Model of the Productivity-Ranker backend: the persistence accessors     *)
(* (server/storage), the week-bounds calculator and the daily scoring      *)
(* route (server/routes).  Every database statement awaited by a handler   *)
(* is one atomic step; steps of different requests interleave freely, as   *)
(* they do on the Node event loop with a pooled PostgreSQL connection.     *)
(*                                                                         *)
(* Numbers: scores are JavaScript numbers stored in `real` columns.  The   *)
(* model keeps them as integers counted in tenths (Scale), which is the    *)
(* resolution of the weekly average, Math.round(avg * 10) / 10.            *)
(* Dates: a "YYYY-MM-DD" string is the number of days since 2026-01-01; a  *)
(* Date object is the number of hours since 2026-01-01T00:00Z.             *)
(***************************************************************************)
EXTENDS Integers, FiniteSets, Sequences, TLC

VARIABLES
    tz,             \* offset of the server's local time from UTC, in hours
    entries,        \* table productivity_entries
    dailyScores,    \* table daily_scores
    weeklyScores,   \* table weekly_scores
    nextId,         \* the serial counters of the three tables
    req,            \* the scoring requests being handled, by slot
    started,        \* number of requests received so far
    wbRef,          \* week-bounds calculator on its own: the reference date
    wbOut,          \* ... and the bounds computed for it
    del,            \* the delete-entry requests answered so far, and the last answer
    chatMessages,   \* table chat_messages, in creation order
    nextChatId,     \* the serial counter of chat_messages
    chat,           \* the chat requests being handled, by slot
    chatStarted,    \* number of chat requests received so far
    clearedAt,      \* per user, the value of the serial counter at the last clear
    board,          \* the answer of the scoreboard request being handled
    users,          \* table users
    sessions,       \* per client (cookie), the userId of its session
    auth,           \* the register and login requests being handled, by slot
    authStarted,    \* number of register and login requests received so far
    http,           \* the answer of the read request being handled
    messages,       \* coach screen: the bubbles shown
    inputText,      \* coach screen: the text typed
    isStreaming,    \* coach screen: a send is in progress
    showTyping,     \* coach screen: the typing indicator is shown
    initializedRef, \* coach screen: the history has been put on the screen
    historyData,    \* coach screen: historyQuery.data
    historyPending, \* coach screen: a fetch of the history is under way
    clearing,       \* coach screen: a clear request is under way
    sends,          \* coach screen: the calls of handleSend in progress, by slot
    sendCount,      \* coach screen: number of sends started so far
    clearCount,     \* coach screen: number of clears asked for so far
    stored          \* the chat messages the server holds for the screen's user

chatVars == <<chatMessages, nextChatId, chat, chatStarted, clearedAt>>

authVars == <<users, sessions, auth, authStarted>>

coachVars == <<messages, inputText, isStreaming, showTyping, initializedRef, historyData,
               historyPending, clearing, sends, sendCount, clearCount, stored>>

restVars == <<board, authVars, http, coachVars>>

scoreVars == <<tz, entries, dailyScores, weeklyScores, nextId, req, started, wbRef, wbOut,
               del, restVars>>

vars == <<tz, entries, dailyScores, weeklyScores, nextId, req, started, wbRef, wbOut,
          del, chatVars, restVars>>

\* ------------------------------------------------------------------ bounds
MaxRequests == 3
MaxScoreRequests == 1
MaxEntries == 2
NumSlots == 2
LastRefDay == 66
MaxRescoreRequests == 2
MaxDeletes == 2
NumChatSlots == 2
MaxChatRequests == 2
MaxChunks == 2
MaxHistoryRequests == 14
NumAuthSlots == 2
MaxAuthRequests == 3
MaxUserId == 4
MaxAppLogins == 2
MaxAppScores == 1
MaxAppChats == 1
MaxAppDeletes == 1
MaxOwnerScores == 2
MaxOwnerChats == 2
NumSendSlots == 2
MaxSends == 2
MaxFragments == 2
MaxClears == 1

Users == {1, 2}
NoUser == 0
Slots == 1..NumSlots
ChatSlots == 1..NumChatSlots
AuthSlots == 1..NumAuthSlots
UserIds == 1..MaxUserId
Clients == {1, 2}

\* Saturday 2026-02-07 and Sunday 2026-02-08, which close the week of Monday
\* 2026-02-02.
Dates == {37, 38}

\* new Date() when the scoreboard is asked for: noon UTC of Sunday 2026-02-08
\* and of Monday 2026-02-09.
Clock == {38 * 24 + 12, 39 * 24 + 12}
RefDates == 7..LastRefDay
TZOffsets == {-5, 0, 1}

\* ---------------------------------------------------------------- calendar
Scale == 10

\* Index of the first day of each month of 2026 up to May.
MonthStarts == {0, 31, 59, 90, 120}

Max(S) == CHOOSE x \in S : \A y \in S : y <= x

MonthStartOf(day) == Max({m \in MonthStarts : m <= day})

\* new Date("YYYY-MM-DD"): a date-only string is midnight UTC.
NewDate(dateStr) == dateStr * 24

\* The local calendar day and hour of day of a Date.
LocalDay(t) == (t + tz) \div 24
LocalHour(t) == (t + tz) % 24

\* Date.prototype.getDay (local): 0 is Sunday; 2026-01-01 is a Thursday.
getDay(t) == (LocalDay(t) + 4) % 7

\* Date.prototype.getDate (local day of the month).
getDate(t) == LocalDay(t) - MonthStartOf(LocalDay(t)) + 1

\* Date.prototype.setDate(n) (local): day n of the Date's month, which rolls
\* over into the neighbouring months when n is outside the month.
setDate(t, n) == (MonthStartOf(LocalDay(t)) + n - 1) * 24 + LocalHour(t) - tz

\* Date.prototype.setHours(0, 0, 0, 0): local midnight of the Date's day.
setHoursZero(t) == LocalDay(t) * 24 - tz

\* toISOString().split("T")[0]: the UTC calendar day.
toISODate(t) == t \div 24

getWeekBounds(dateStr) ==
    LET d == NewDate(dateStr)
        day == getDay(d)
        diff == getDate(d) - day + (IF day = 0 THEN -6 ELSE 1)
        monday == setHoursZero(setDate(d, diff))
        sunday == setDate(monday, getDate(monday) + 6)
    IN  [weekStart |-> toISODate(monday), weekEnd |-> toISODate(sunday)]

\* getWeekBounds() without an argument: the week of the current instant.
getWeekBoundsNow(now) ==
    LET d == now
        day == getDay(d)
        diff == getDate(d) - day + (IF day = 0 THEN -6 ELSE 1)
        monday == setHoursZero(setDate(d, diff))
        sunday == setDate(monday, getDate(monday) + 6)
    IN  [weekStart |-> toISODate(monday), weekEnd |-> toISODate(sunday)]

\* --------------------------------------------------- the generator's reply
\* A JavaScript number: NaN, or a value counted in tenths.
NaN == [nan |-> TRUE, v |-> 0]
Num(v) == [nan |-> FALSE, v |-> v]

\* The JSON values a reply may carry in its "score" field; Missing is the
\* absent field (undefined).
Missing == [t |-> "missing", v |-> 0, s |-> ""]
JNull == [t |-> "null", v |-> 0, s |-> ""]
JNum(v) == [t |-> "num", v |-> v, s |-> ""]
JStr(s) == [t |-> "str", v |-> 0, s |-> s]

\* -5, 0, 0.4, 50, 72.5, 85, 100 and 150, in tenths.
ScoreNumbers == {-50, 0, 4, 500, 725, 850, 1000, 1500}
ScoreFields == {Missing, JNull} \cup {JNum(v) : v \in ScoreNumbers}
                  \cup {JStr(s) : s \in {"", "85", "72.5", "high"}}

\* The "insight" field: absent (<<>>) or a string.
InsightFields == {<<>>, <<"">>, <<"Solid day.">>}

\* response.choices[0]?.message?.content: nothing ("none"), text holding one
\* JSON object ("object"), text holding no JSON at all ("text"), the JSON
\* literal null ("null"), or a JSON object followed by words and a second
\* object ("objects").  The two fields of the object are read independently,
\* so each is varied with the other held fixed.
Contents ==
    {[kind |-> k, score |-> Missing, insight |-> <<>>] : k \in {"none", "text", "null"}}
        \cup [kind : {"object"}, score : ScoreFields, insight : {<<"Solid day.">>}]
        \cup [kind : {"object"}, score : {JNum(850)}, insight : InsightFields]
        \cup [kind : {"objects"}, score : {JNum(850)}, insight : {<<"Solid day.">>}]

\* The replies drawn while requests interleave: 85 with an insight and 72.5
\* without one.
MainContents ==
    {[kind |-> "object", score |-> JNum(850), insight |-> <<"Solid day.">>],
     [kind |-> "object", score |-> JNum(725), insight |-> <<>>]}

\* The reply as it was received.
RawText(content) ==
    IF content.kind = "objects"
    THEN "{\"score\": 85, \"insight\": \"Solid day.\"} or {\"score\": 10}"
    ELSE "I cannot rate this day."

\* The reply as a sequence of lexical pieces: the braces, what stands between
\* a pair of them ("fields"), and everything else.
TextOf(content) ==
    CASE content.kind = "object" -> <<"{", "fields", "}">>
      [] content.kind = "objects" -> <<"{", "fields", "}", "words", "{", "fields", "}">>
      [] content.kind = "null" -> <<"null">>
      [] content.kind = "text" -> <<"words">>
      [] OTHER -> <<>>

Positions(text, piece) == {i \in 1..Len(text) : text[i] = piece}
Least(S) == CHOOSE i \in S : \A j \in S : i <= j
Greatest(S) == CHOOSE i \in S : \A j \in S : i >= j

\* text.match(/\{[\s\S]*\}/): the star is greedy, so the match runs from
\* the first "{" to the last "}" after it; <<>> when there is no match.
MatchBraces(text) ==
    LET opens == Positions(text, "{")
        closes == {j \in Positions(text, "}") : opens # {} /\ j > Least(opens)}
    IN  IF closes = {} THEN <<>> ELSE SubSeq(text, Least(opens), Greatest(closes))

\* JSON.parse of a piece of the reply: "object", "null", or "throws".
JSONParse(text) ==
    CASE text = <<"{", "fields", "}">> -> "object"
      [] text = <<"null">> -> "null"
      [] OTHER -> "throws"

\* Number(x) for a JSON value x.
StringToNumber(s) ==
    CASE s = "" -> Num(0)
      [] s = "85" -> Num(85 * Scale)
      [] s = "72.5" -> Num(725)
      [] OTHER -> NaN

ToNumber(x) ==
    CASE x.t = "num" -> Num(x.v)
      [] x.t = "null" -> Num(0)
      [] x.t = "str" -> StringToNumber(x.s)
      [] OTHER -> NaN

\* n || d for a number n: NaN and 0 are falsy.
NumberOr(n, d) == IF n.nan \/ n.v = 0 THEN d ELSE n.v

\* s || d for an optional string s: undefined and "" are falsy.
StringOr(s, d) == IF s = <<>> \/ s = <<"">> THEN d ELSE s[1]

MathMin(a, b) == IF a <= b THEN a ELSE b
MathMax(a, b) == IF a >= b THEN a ELSE b

\* The reply used when the generator returns no content.
DefaultContent == [score |-> JNum(50 * Scale), insight |-> <<"Keep going!">>]

\* The try/catch around JSON.parse: the value parsed from the braces matched
\* in the reply (from the whole reply when nothing matches), or the fallback
\* object when JSON.parse throws.  isNull: the value parsed is null.
ParseContent(content) ==
    LET reply == IF content.kind = "none"
                 THEN [kind |-> "object", score |-> DefaultContent.score,
                       insight |-> DefaultContent.insight]
                 ELSE content
        jsonMatch == MatchBraces(TextOf(reply))
        value == JSONParse(IF jsonMatch # <<>> THEN jsonMatch ELSE TextOf(reply))
    IN  CASE value = "object" ->
                [isNull |-> FALSE, score |-> reply.score, insight |-> reply.insight]
          [] value = "null" ->
                [isNull |-> TRUE, score |-> Missing, insight |-> <<>>]
          [] OTHER ->
                [isNull |-> FALSE, score |-> JNum(50 * Scale),
                 insight |-> <<RawText(reply)>>]

\* ClampScore without the upper bound.
ClampScoreNoUpperBound(parsed) ==
    MathMax(0, NumberOr(ToNumber(parsed.score), 50 * Scale))

ClampScore(parsed) ==
    MathMin(100 * Scale, MathMax(0, NumberOr(ToNumber(parsed.score), 50 * Scale)))

PickInsight(parsed) == StringOr(parsed.insight, "Keep pushing your productivity!")

NoActivityMsg == "No activities logged today. Start tracking to get your productivity score!"

\* ------------------------------------------------- persistence accessors
RECURSIVE SumScores(_)
SumScores(rows) ==
    IF rows = {} THEN 0
    ELSE LET r == CHOOSE x \in rows : TRUE IN r.score + SumScores(rows \ {r})

createProductivityEntry(userId, date) ==
    entries \cup {[id |-> nextId.entries, userId |-> userId, date |-> date]}

\* getEntriesByDate with the date condition dropped.
getEntriesOfAnyDate(userId, date) ==
    {e \in entries : e.userId = userId}

getEntriesByDate(userId, date) ==
    {e \in entries : e.userId = userId /\ e.date = date}

\* saveDailyScore, first statement: the rows of (userId, date).
selectDailyScore(userId, date) ==
    {s \in dailyScores : s.userId = userId /\ s.date = date}

\* The update of saveDailyScore with the date condition dropped.
updateDailyScoreOfAnyDate(userId, date, score, aiInsight) ==
    {IF s.userId = userId
        THEN [s EXCEPT !.score = score, !.aiInsight = aiInsight]
        ELSE s : s \in dailyScores}

\* saveDailyScore, second statement when a row was found.
updateDailyScore(userId, date, score, aiInsight) ==
    {IF s.userId = userId /\ s.date = date
        THEN [s EXCEPT !.score = score, !.aiInsight = aiInsight]
        ELSE s : s \in dailyScores}

\* saveDailyScore, second statement when no row was found.
insertDailyScore(userId, date, score, aiInsight) ==
    dailyScores \cup {[id |-> nextId.daily, userId |-> userId, date |-> date,
                       score |-> score, aiInsight |-> aiInsight]}

getEntriesByDateRange(userId, startDate, endDate) ==
    {e \in entries : e.userId = userId /\ e.date >= startDate /\ e.date <= endDate}

getDailyScores(userId, startDate, endDate) ==
    {s \in dailyScores : s.userId = userId /\ s.date >= startDate /\ s.date <= endDate}

selectWeeklyScore(userId, weekStart) ==
    {w \in weeklyScores : w.userId = userId /\ w.weekStart = weekStart}

updateWeeklyScore(userId, weekStart, avgScore, totalEntries) ==
    {IF w.userId = userId /\ w.weekStart = weekStart
        THEN [w EXCEPT !.avgScore = avgScore, !.totalEntries = totalEntries]
        ELSE w : w \in weeklyScores}

insertWeeklyScore(userId, weekStart, weekEnd, avgScore, totalEntries) ==
    weeklyScores \cup {[id |-> nextId.weekly, userId |-> userId,
                        weekStart |-> weekStart, weekEnd |-> weekEnd,
                        avgScore |-> avgScore, totalEntries |-> totalEntries]}

\* The rows of the scoreboard query before they are ordered.
ScoreboardRows(rows) ==
    {[userId |-> w.userId, avgScore |-> w.avgScore, totalEntries |-> w.totalEntries,
      id |-> w.id] : w \in rows}

\* ORDER BY avg_score DESC: every order of the rows in which the average
\* never increases (rows with equal averages come in any order).
OrderedByAvgDesc(rows) ==
    {list \in [1..Cardinality(rows) -> rows] :
        /\ \A i, j \in 1..Cardinality(rows) : i # j => list[i] # list[j]
        /\ \A i, j \in 1..Cardinality(rows) : i < j => list[i].avgScore >= list[j].avgScore}

\* getWeeklyScoreboard without the condition on the week.
getWeeklyScoreboardOfAllWeeks(weekStart) ==
    OrderedByAvgDesc(ScoreboardRows(weeklyScores))

\* getWeeklyScoreboard: the lists the query can return (the join with users
\* adds the name and occupation of the row's user, who exists by the foreign
\* key).
getWeeklyScoreboard(weekStart) ==
    OrderedByAvgDesc(ScoreboardRows({w \in weeklyScores : w.weekStart = weekStart}))

\* Math.round(avg * 10) / 10 for avg = sum / n, the sum counted in tenths:
\* Math.round rounds a half up.
RoundedAverage(sum, n) == (2 * sum + n) \div (2 * n)

\* deleteEntry without the owner condition.
deleteEntryOfAnyUser(id, userId) ==
    {e \in entries : e.id = id}

\* deleteEntry: the rows returned by DELETE ... WHERE id AND user_id RETURNING.
deleteEntry(id, userId) ==
    {e \in entries : e.id = id /\ e.userId = userId}

\* ------------------------------------------------------------------ chat
\* Text is a sequence of words; "" is <<>>.  The body of POST /api/chat: its
\* message field is absent (given = FALSE), or a string.
ChatBodies ==
    {[given |-> FALSE, text |-> <<>>]}
        \cup {[given |-> TRUE, text |-> t] : t \in {<<>>, <<"Plan my day.">>}}

\* !message: undefined and "" are falsy.
Falsy(body) == ~body.given \/ body.text = <<>>

\* chunk.choices[0]?.delta?.content || "": the text of a chunk, "" when
\* the chunk carries none.
Fragments == {<<>>, <<"Start">>, <<"small.">>}

\* The events written to the response.
ContentEvent(text) == [type |-> "content", text |-> text]
DoneEvent == [type |-> "done", text |-> <<>>]
ErrorEvent == [type |-> "error", text |-> <<>>]

\* chatHistory.slice(-20) takes the last HistoryLimit elements.
HistoryLimit == 20

\* clearChatMessages without the condition on the user.
clearChatMessagesOfAll(userId) == <<>>

\* getChatMessages: the user's rows ordered by created_at.
getChatMessages(userId) ==
    SelectSeq(chatMessages, LAMBDA m : m.userId = userId)

\* saveChatMessage: the table after the insert.
saveChatMessage(userId, role, content) ==
    Append(chatMessages,
           [id |-> nextChatId, userId |-> userId, role |-> role, content |-> content])

\* clearChatMessages: the table after the delete.
clearChatMessages(userId) ==
    SelectSeq(chatMessages, LAMBDA m : m.userId # userId)

\* array.slice(-n).
SliceLast(seq, n) ==
    IF Len(seq) <= n THEN seq ELSE SubSeq(seq, Len(seq) - n + 1, Len(seq))

\* array.slice(0, n).
SliceFirst(seq, n) ==
    IF Len(seq) <= n THEN seq ELSE SubSeq(seq, 1, n)

SystemPrompt == <<"You are an expert productivity coach.">>

\* ChatContext taking the oldest messages of the history.
ChatContextOldest(chatHistory, message) ==
    LET recent == SliceFirst(chatHistory, HistoryLimit)
    IN  <<[role |-> "system", content |-> SystemPrompt]>>
            \o [i \in 1..Len(recent) |->
                    [role |-> recent[i].role, content |-> recent[i].content]]
            \o <<[role |-> "user", content |-> message]>>

\* The messages array handed to the generation service.
ChatContext(chatHistory, message) ==
    LET recent == SliceLast(chatHistory, HistoryLimit)
    IN  <<[role |-> "system", content |-> SystemPrompt]>>
            \o [i \in 1..Len(recent) |->
                    [role |-> recent[i].role, content |-> recent[i].content]]
            \o <<[role |-> "user", content |-> message]>>

\* ------------------------------------------------------------- requests
IdleReq ==
    [pc |-> "idle", userId |-> NoUser, date |-> 0, hadEntries |-> FALSE,
     aiCalls |-> 0, content |-> <<>>, score |-> 0, insight |-> "",
     existing |-> FALSE, dailyHadRow |-> FALSE, weeklyHadRow |-> FALSE, weekStart |-> 0, weekEnd |-> 0, avg |-> 0, count |-> 0,
     genFailed |-> FALSE, writes |-> 0, status |-> 0]

\* ------------------------------------------------------------------ users
\* bcrypt.hash and bcrypt.compare (verifyPassword).
Hash(password) == <<"bcrypt", password>>
verifyPassword(password, hash) == hash = Hash(password)

\* The users registered before: ids 1 and 2.
InitialUsers ==
    {[id |-> 1, username |-> "ann", email |-> "ann@x.org", password |-> Hash("ann-pw")],
     [id |-> 2, username |-> "bob", email |-> "bob@x.org", password |-> Hash("bob-pw")]}

\* The bodies of POST /api/auth/register: valid says whether insertUserSchema
\* accepts the body.
RegisterBodies ==
    [valid : {TRUE}, username : {"ann", "cy"}, email : {"ann@x.org", "cy@x.org"},
     password : {"cy-pw"}]
        \cup {[valid |-> FALSE, username |-> "", email |-> "", password |-> ""]}

\* The bodies of POST /api/auth/login: loginSchema wants two non-empty strings.
LoginBodies ==
    [username : {"ann", "cy"}, password : {"ann-pw", "nope"}]
        \cup {[username |-> "", password |-> ""]}

NoRow == <<>>

\* getUserByUsername: <<row>> for the user found, << >> for undefined.
getUserByUsername(username) ==
    IF \E u \in users : u.username = username
    THEN <<CHOOSE u \in users : u.username = username>>
    ELSE NoRow

\* The unique constraints an insert of the given user would violate.
ViolatedConstraints(username, email) ==
    {"users_username_unique" : u \in {v \in users : v.username = username}}
        \cup {"users_email_unique" : u \in {v \in users : v.email = email}}

\* String.prototype.includes("email") on the name of a constraint.
IncludesEmail(constraint) == constraint = "users_email_unique"

\* No register or login request is handled in the slot.
IdleAuth ==
    [pc |-> "idle", kind |-> "", client |-> 0, username |-> "", email |-> "",
     password |-> "", found |-> NoRow, createdId |-> 0, status |-> 0, body |-> ""]

\* ------------------------------------------------------------ coach screen
SendSlots == 1..NumSendSlots

\* The texts typed: nothing, blanks, a question between blanks.
InputTexts == {<<>>, <<" ">>, <<" ", "Plan", "my", "day.", " ">>}

\* String.prototype.trim: the blanks at both ends are dropped.
RECURSIVE TrimStart(_)
TrimStart(text) ==
    IF text # <<>> /\ Head(text) = " " THEN TrimStart(Tail(text)) ELSE text

RECURSIVE TrimEnd(_)
TrimEnd(text) ==
    IF text # <<>> /\ text[Len(text)] = " "
    THEN TrimEnd(SubSeq(text, 1, Len(text) - 1))
    ELSE text

Trim(text) == TrimEnd(TrimStart(text))

\* historyQuery.data before the first answer: undefined.
NoData == [loaded |-> FALSE, rows |-> <<>>]

\* The conversation the server holds when the screen is opened.
PriorChat ==
    <<[role |-> "user", content |-> <<"Hello">>],
      [role |-> "assistant", content |-> <<"Welcome", "back.">>]>>

\* The events of the stream as the screen reads them: fragments of the
\* reply, the error event, the [DONE] marker.
StreamEvents ==
    {[type |-> "content", content |-> <<"Start">>],
     [type |-> "content", content |-> <<"small.">>],
     [type |-> "error", content |-> <<>>],
     [type |-> "done", content |-> <<>>]}

SorryMsg == <<"Sorry,", "I", "had", "trouble", "responding.", "Please", "try", "again.">>

\* No call of handleSend is in progress in the slot.
IdleSend ==
    [pc |-> "idle", n |-> 0, text |-> <<>>, fullContent |-> <<>>, assistantAdded |-> FALSE,
     reads |-> 0]

\* No scoreboard request is being handled.
NoBoard == [status |-> 0, userId |-> NoUser, weekStart |-> 0, scoreboard |-> <<>>]

\* No read request is being handled.  An answer names the route, the userId
\* of the session and what the body holds: rows of a table, chat messages.
NoAnswer == [route |-> "", userId |-> NoUser, status |-> 0, rows |-> {}, messages |-> <<>>]

\* No delete-entry request has been answered yet.
NoDelete == [n |-> 0, userId |-> NoUser, id |-> 0, status |-> 0]

\* A chat request: the message of its body, the history read, the context
\* handed to the generator, the fragments that arrived (arrived), the reply
\* buffer (fullResponse) and what was written to the response (events).
IdleChat ==
    [pc |-> "idle", userId |-> NoUser, body |-> [given |-> FALSE, text |-> <<>>],
     msgId |-> 0, history |-> <<>>, context |-> <<>>, headersSent |-> FALSE,
     aiCalls |-> 0, genFailed |-> FALSE, arrived |-> <<>>, fullResponse |-> <<>>,
     events |-> <<>>, assistantId |-> 0, cleared |-> FALSE, status |-> 0,
     recentEntries |-> {}, recentScores |-> {}]

Init ==
    /\ tz \in TZOffsets
    /\ entries = {}
    /\ dailyScores = {}
    /\ weeklyScores = {}
    /\ nextId = [entries |-> 1, daily |-> 1, weekly |-> 1, users |-> 3]
    /\ req = [r \in Slots |-> IdleReq]
    /\ started = 0
    /\ wbRef = 0
    /\ wbOut = <<>>
    /\ del = NoDelete
    /\ chatMessages = <<>>
    /\ nextChatId = 1
    /\ chat = [c \in ChatSlots |-> IdleChat]
    /\ chatStarted = 0
    /\ clearedAt = [u \in UserIds |-> 0]
    /\ board = NoBoard
    /\ users = InitialUsers
    /\ sessions = [k \in Clients |-> NoUser]
    /\ auth = [a \in AuthSlots |-> IdleAuth]
    /\ authStarted = 0
    /\ http = NoAnswer
    /\ messages = <<>>
    /\ inputText = <<>>
    /\ isStreaming = FALSE
    /\ showTyping = FALSE
    /\ initializedRef = FALSE
    /\ historyData = NoData
    /\ historyPending = TRUE
    /\ clearing = FALSE
    /\ sends = [s \in SendSlots |-> IdleSend]
    /\ sendCount = 0
    /\ clearCount = 0
    /\ stored = PriorChat

\* POST /api/entries by an authenticated user (the payload is valid).
CreateEntry(u, d) ==
    /\ nextId.entries <= MaxEntries
    /\ entries' = createProductivityEntry(u, d)
    /\ nextId' = [nextId EXCEPT !.entries = @ + 1]
    /\ UNCHANGED <<tz, dailyScores, weeklyScores, req, started, wbRef, wbOut, del, chatVars, restVars>>

\* POST /api/score/daily arrives with session user u (NoUser: no session)
\* and body.date d, and is handled in the first free slot; requireAuth
\* answers 401 without a session.
ScoreRequest(r, u, d) ==
    /\ req[r].pc = "idle"
    /\ \A r2 \in Slots : r2 < r => req[r2].pc # "idle"
    /\ started < MaxRequests
    /\ started' = started + 1
    /\ req' = [req EXCEPT ![r] =
                 IF u = NoUser
                 THEN [IdleReq EXCEPT !.pc = "respond", !.status = 401]
                 ELSE [IdleReq EXCEPT !.pc = "getEntries", !.userId = u, !.date = d]]
    /\ UNCHANGED <<tz, entries, dailyScores, weeklyScores, nextId, wbRef, wbOut, del, chatVars, restVars>>

\* DELETE /api/entries/:id with session user u (NoUser: no session) and path
\* parameter id: requireAuth, the one statement of deleteEntry, the answer.
DeleteEntry(u, id) ==
    /\ del.n < MaxDeletes
    /\ IF u = NoUser
       THEN /\ entries' = entries
            /\ del' = [n |-> del.n + 1, userId |-> u, id |-> id, status |-> 401]
       ELSE /\ entries' = entries \ deleteEntry(id, u)
            /\ del' = [n |-> del.n + 1, userId |-> u, id |-> id,
                       status |-> IF Cardinality(deleteEntry(id, u)) > 0
                                  THEN 200 ELSE 404]
    /\ UNCHANGED <<tz, dailyScores, weeklyScores, nextId, req, started, wbRef, wbOut,
                   chatVars, restVars>>

\* ScoreGetEntries persisting the zero score of a day without entries.
ScoreGetEntriesSavingZero(r) ==
    LET q == req[r]
        found == getEntriesByDate(q.userId, q.date)
        had == \E e \in entries : e.userId = q.userId /\ e.date = q.date
    IN  /\ q.pc = "getEntries"
        /\ req' = [req EXCEPT ![r] =
                     IF found = {}
                     THEN [q EXCEPT !.pc = "respond", !.hadEntries = had, !.status = 200,
                                    !.score = 0, !.insight = NoActivityMsg]
                     ELSE [q EXCEPT !.pc = "generate", !.hadEntries = had]]
        /\ dailyScores' = IF found = {}
                          THEN {[s EXCEPT !.score = 0] : s \in dailyScores}
                          ELSE dailyScores
        /\ UNCHANGED <<tz, entries, weeklyScores, nextId, started, wbRef, wbOut, del,
                       chatVars, restVars>>

\* await getEntriesByDate; no entries: respond score 0 with the fixed message.
ScoreGetEntries(r) ==
    LET q == req[r]
        found == getEntriesByDate(q.userId, q.date)
        had == \E e \in entries : e.userId = q.userId /\ e.date = q.date
    IN  /\ q.pc = "getEntries"
        /\ req' = [req EXCEPT ![r] =
                     IF found = {}
                     THEN [q EXCEPT !.pc = "respond", !.hadEntries = had, !.status = 200,
                                    !.score = 0, !.insight = NoActivityMsg]
                     ELSE [q EXCEPT !.pc = "generate", !.hadEntries = had]]
        /\ UNCHANGED <<tz, entries, dailyScores, weeklyScores, nextId, started, wbRef, wbOut, del, chatVars, restVars>>

\* await getUserById, await openai.chat.completions.create, then parse and
\* clamp the reply.  Reading parsed.score of null throws a TypeError, which
\* the catch block answers with 500.
ScoreGenerate(r, content) ==
    LET q == req[r]
        parsed == ParseContent(content)
    IN  /\ q.pc = "generate"
        /\ req' = [req EXCEPT ![r] =
                     IF parsed.isNull
                     THEN [q EXCEPT !.pc = "respond", !.aiCalls = @ + 1,
                                    !.content = <<content>>, !.status = 500]
                     ELSE [q EXCEPT !.pc = "dsSelect", !.aiCalls = @ + 1,
                                    !.content = <<content>>,
                                    !.score = ClampScore(parsed),
                                    !.insight = PickInsight(parsed)]]
        /\ UNCHANGED <<tz, entries, dailyScores, weeklyScores, nextId, started, wbRef, wbOut, del, chatVars, restVars>>

\* ScoreGenerateFails calling the generation service a second time.
ScoreGenerateFailsRetrying(r) ==
    LET q == req[r]
    IN  /\ q.pc = "generate"
        /\ req' = [req EXCEPT ![r] =
                     IF q.aiCalls = 0
                     THEN [q EXCEPT !.aiCalls = @ + 1, !.genFailed = TRUE]
                     ELSE [q EXCEPT !.pc = "respond", !.aiCalls = @ + 1,
                                    !.genFailed = TRUE, !.status = 500]]
        /\ UNCHANGED <<tz, entries, dailyScores, weeklyScores, nextId, started, wbRef, wbOut, del, chatVars, restVars>>

\* The generation call rejects: the catch block answers 500.
ScoreGenerateFails(r) ==
    LET q == req[r]
    IN  /\ q.pc = "generate"
        /\ req' = [req EXCEPT ![r] =
                     [q EXCEPT !.pc = "respond", !.aiCalls = @ + 1,
                               !.genFailed = TRUE, !.status = 500]]
        /\ UNCHANGED <<tz, entries, dailyScores, weeklyScores, nextId, started, wbRef, wbOut, del, chatVars, restVars>>

\* saveDailyScore: the select of the existing rows.
SaveDailySelect(r) ==
    LET q == req[r]
        hadRow == \E s \in dailyScores : s.userId = q.userId /\ s.date = q.date
    IN  /\ q.pc = "dsSelect"
        /\ req' = [req EXCEPT ![r] =
                     [q EXCEPT !.pc = "dsWrite",
                               !.existing = (selectDailyScore(q.userId, q.date) # {}),
                               !.dailyHadRow = hadRow]]
        /\ UNCHANGED <<tz, entries, dailyScores, weeklyScores, nextId, started, wbRef, wbOut, del, chatVars, restVars>>

\* saveDailyScore: the update when rows were found, the insert otherwise.
SaveDailyWrite(r) ==
    LET q == req[r]
    IN  /\ q.pc = "dsWrite"
        /\ IF q.existing
           THEN /\ dailyScores' = updateDailyScore(q.userId, q.date, q.score, q.insight)
                /\ nextId' = nextId
           ELSE /\ dailyScores' = insertDailyScore(q.userId, q.date, q.score, q.insight)
                /\ nextId' = [nextId EXCEPT !.daily = @ + 1]
        /\ req' = [req EXCEPT ![r] =
                     [q EXCEPT !.pc = "getWeek", !.existing = FALSE, !.writes = @ + 1]]
        /\ UNCHANGED <<tz, entries, weeklyScores, started, wbRef, wbOut, del, chatVars, restVars>>

\* getWeekBounds(date), await getDailyScores, and the average of the rows read.
ScoreGetWeek(r) ==
    LET q == req[r]
        wb == getWeekBounds(q.date)
        weekScores == getDailyScores(q.userId, wb.weekStart, wb.weekEnd)
        n == Cardinality(weekScores)
    IN  /\ q.pc = "getWeek"
        /\ req' = [req EXCEPT ![r] =
                     IF n > 0
                     THEN [q EXCEPT !.pc = "wsSelect", !.weekStart = wb.weekStart,
                                    !.weekEnd = wb.weekEnd, !.count = n,
                                    !.avg = RoundedAverage(SumScores(weekScores), n)]
                     ELSE [q EXCEPT !.pc = "respond", !.status = 200]]
        /\ UNCHANGED <<tz, entries, dailyScores, weeklyScores, nextId, started, wbRef, wbOut, del, chatVars, restVars>>

\* saveWeeklyScore: the select of the existing rows.
SaveWeeklySelect(r) ==
    LET q == req[r]
        hadRow == \E w \in weeklyScores : w.userId = q.userId /\ w.weekStart = q.weekStart
    IN  /\ q.pc = "wsSelect"
        /\ req' = [req EXCEPT ![r] =
                     [q EXCEPT !.pc = "wsWrite",
                               !.existing = (selectWeeklyScore(q.userId, q.weekStart) # {}),
                               !.weeklyHadRow = hadRow]]
        /\ UNCHANGED <<tz, entries, dailyScores, weeklyScores, nextId, started, wbRef, wbOut, del, chatVars, restVars>>

\* saveWeeklyScore: the update when rows were found, the insert otherwise.
SaveWeeklyWrite(r) ==
    LET q == req[r]
    IN  /\ q.pc = "wsWrite"
        /\ IF q.existing
           THEN /\ weeklyScores' = updateWeeklyScore(q.userId, q.weekStart, q.avg, q.count)
                /\ nextId' = nextId
           ELSE /\ weeklyScores' = insertWeeklyScore(q.userId, q.weekStart, q.weekEnd,
                                                     q.avg, q.count)
                /\ nextId' = [nextId EXCEPT !.weekly = @ + 1]
        /\ req' = [req EXCEPT ![r] =
                     [q EXCEPT !.pc = "respond", !.existing = FALSE, !.writes = @ + 1,
                               !.status = 200]]
        /\ UNCHANGED <<tz, entries, dailyScores, started, wbRef, wbOut, del, chatVars, restVars>>

\* The response (res.json or res.status(..).json) is sent and the request ends.
ScoreRespond(r) ==
    LET q == req[r]
    IN  /\ q.pc = "respond"
        /\ req' = [req EXCEPT ![r] = IdleReq]
        /\ UNCHANGED <<tz, entries, dailyScores, weeklyScores, nextId, started, wbRef, wbOut, del, chatVars, restVars>>

Next ==
    \/ \E u \in Users, d \in Dates : CreateEntry(u, d)
    \/ \E r \in Slots, u \in Users \cup {NoUser}, d \in Dates : ScoreRequest(r, u, d)
    \/ \E r \in Slots : ScoreGetEntries(r)
    \/ \E r \in Slots, content \in MainContents : ScoreGenerate(r, content)
    \/ \E r \in Slots : ScoreGenerateFails(r)
    \/ \E r \in Slots : SaveDailySelect(r)
    \/ \E r \in Slots : SaveDailyWrite(r)
    \/ \E r \in Slots : ScoreGetWeek(r)
    \/ \E r \in Slots : SaveWeeklySelect(r)
    \/ \E r \in Slots : SaveWeeklyWrite(r)
    \/ \E r \in Slots : ScoreRespond(r)

Spec == Init /\ [][Next]_vars

\* One client scoring day after day, against every reply of Contents.
NextScore ==
    \/ \E u \in Users, d \in Dates : CreateEntry(u, d)
    \/ \E u \in Users \cup {NoUser}, d \in Dates :
          started < MaxScoreRequests /\ ScoreRequest(1, u, d)
    \/ ScoreGetEntries(1)
    \/ \E content \in Contents : ScoreGenerate(1, content)
    \/ ScoreGenerateFails(1)
    \/ SaveDailySelect(1)
    \/ SaveDailyWrite(1)
    \/ ScoreGetWeek(1)
    \/ SaveWeeklySelect(1)
    \/ SaveWeeklyWrite(1)
    \/ ScoreRespond(1)

SpecScore == Init /\ [][NextScore]_vars

\* GET /api/scoreboard with session user u at the instant now: requireAuth,
\* getWeekBounds(), the one query, the answer.
GetScoreboard(u, now) ==
    /\ board = NoBoard
    /\ IF u = NoUser
       THEN board' = [NoBoard EXCEPT !.status = 401]
       ELSE \E list \in getWeeklyScoreboard(getWeekBoundsNow(now).weekStart) :
               board' = [status |-> 200, userId |-> u,
                         weekStart |-> getWeekBoundsNow(now).weekStart,
                         scoreboard |-> list]
    /\ UNCHANGED <<tz, entries, dailyScores, weeklyScores, nextId, req, started, wbRef, wbOut,
                   del, chatVars, authVars, http, coachVars>>

\* The answer is sent.
ScoreboardRespond ==
    /\ board # NoBoard
    /\ board' = NoBoard
    /\ UNCHANGED <<tz, entries, dailyScores, weeklyScores, nextId, req, started, wbRef, wbOut,
                   del, chatVars, authVars, http, coachVars>>

\* One client logging, scoring and deleting entries, request after request.
EntryIds == 1..(MaxEntries + 1)

NextEntries ==
    \/ \E u \in Users, d \in Dates : CreateEntry(u, d)
    \/ \E u \in Users \cup {NoUser}, id \in EntryIds : DeleteEntry(u, id)
    \/ \E u \in Users \cup {NoUser}, d \in Dates :
          started < MaxRescoreRequests /\ ScoreRequest(1, u, d)
    \/ ScoreGetEntries(1)
    \/ \E content \in MainContents : ScoreGenerate(1, content)
    \/ ScoreGenerateFails(1)
    \/ SaveDailySelect(1)
    \/ SaveDailyWrite(1)
    \/ ScoreGetWeek(1)
    \/ SaveWeeklySelect(1)
    \/ SaveWeeklyWrite(1)
    \/ ScoreRespond(1)

SpecEntries == Init /\ [][NextEntries]_vars

\* ---------------------------------------------------------- chat routes
\* ChatCatch closing the failed stream with the [DONE] marker as well.
ChatCatchThenDone(q) ==
    IF q.headersSent
    THEN [q EXCEPT !.pc = "ended", !.events = @ \o <<ErrorEvent, DoneEvent>>]
    ELSE [q EXCEPT !.pc = "ended", !.status = 500]

\* The catch block of POST /api/chat: an error event on an opened stream,
\* the answer 500 otherwise.
ChatCatch(q) ==
    IF q.headersSent
    THEN [q EXCEPT !.pc = "ended", !.events = Append(@, ErrorEvent)]
    ELSE [q EXCEPT !.pc = "ended", !.status = 500]

\* ChatRequest without the check of the message.
ChatRequestUnchecked(c, u, body) ==
    /\ chat[c].pc = "idle"
    /\ \A c2 \in ChatSlots : c2 < c => chat[c2].pc # "idle"
    /\ chatStarted' = chatStarted + 1
    /\ chat' = [chat EXCEPT ![c] =
                  IF u = NoUser
                  THEN [IdleChat EXCEPT !.pc = "ended", !.body = body, !.status = 401]
                  ELSE [IdleChat EXCEPT !.pc = "getHistory", !.userId = u, !.body = body]]
    /\ UNCHANGED <<scoreVars, clearedAt, chatMessages, nextChatId>>

\* POST /api/chat arrives with session user u (NoUser: no session) and the
\* given body, and is handled in the first free slot: requireAuth answers 401
\* without a session, the handler 400 without a message.
ChatRequest(c, u, body) ==
    /\ chat[c].pc = "idle"
    /\ \A c2 \in ChatSlots : c2 < c => chat[c2].pc # "idle"
    /\ chatStarted' = chatStarted + 1
    /\ chat' = [chat EXCEPT ![c] =
                  IF u = NoUser
                  THEN [IdleChat EXCEPT !.pc = "ended", !.body = body, !.status = 401]
                  ELSE IF Falsy(body)
                  THEN [IdleChat EXCEPT !.pc = "ended", !.userId = u, !.body = body,
                                        !.status = 400]
                  ELSE [IdleChat EXCEPT !.pc = "getHistory", !.userId = u, !.body = body]]
    /\ UNCHANGED <<scoreVars, clearedAt, chatMessages, nextChatId>>

\* await getUserById, await getChatMessages.
ChatGetHistory(c) ==
    LET q == chat[c]
    IN  /\ q.pc = "getHistory"
        /\ chat' = [chat EXCEPT ![c] =
                      [q EXCEPT !.pc = "saveUser", !.history = getChatMessages(q.userId)]]
        /\ UNCHANGED <<scoreVars, clearedAt, chatMessages, nextChatId, chatStarted>>

\* await saveChatMessage(userId, "user", message).
ChatSaveUser(c) ==
    LET q == chat[c]
    IN  /\ q.pc = "saveUser"
        /\ chatMessages' = saveChatMessage(q.userId, "user", q.body.text)
        /\ nextChatId' = nextChatId + 1
        /\ chat' = [chat EXCEPT ![c] = [q EXCEPT !.pc = "openStream", !.msgId = nextChatId]]
        /\ UNCHANGED <<scoreVars, clearedAt, chatStarted>>

\* ChatOpenStream reading the week's rows of every user for the prompt.
ChatOpenStreamReadingAll(c, now) ==
    LET q == chat[c]
        week == getWeekBoundsNow(now)
    IN  /\ q.pc = "openStream"
        /\ chat' = [chat EXCEPT ![c] =
                      [q EXCEPT !.pc = "create",
                                !.recentEntries =
                                    {e \in entries : e.date >= week.weekStart
                                                       /\ e.date <= week.weekEnd},
                                !.recentScores =
                                    {d \in dailyScores : d.date >= week.weekStart
                                                           /\ d.date <= week.weekEnd},
                                !.context = ChatContext(q.history, q.body.text),
                                !.headersSent = TRUE, !.status = 200]]
        /\ UNCHANGED <<scoreVars, clearedAt, chatMessages, nextChatId, chatStarted>>

\* getWeekBounds() at the instant now, the reads for the system prompt
\* (getEntriesByDateRange, getDailyScores), the messages array, the three
\* headers and res.flushHeaders().
ChatOpenStream(c, now) ==
    LET q == chat[c]
        week == getWeekBoundsNow(now)
    IN  /\ q.pc = "openStream"
        /\ chat' = [chat EXCEPT ![c] =
                      [q EXCEPT !.pc = "create",
                                !.recentEntries =
                                    getEntriesByDateRange(q.userId, week.weekStart,
                                                          week.weekEnd),
                                !.recentScores =
                                    getDailyScores(q.userId, week.weekStart, week.weekEnd),
                                !.context = ChatContext(q.history, q.body.text),
                                !.headersSent = TRUE, !.status = 200]]
        /\ UNCHANGED <<scoreVars, clearedAt, chatMessages, nextChatId, chatStarted>>

\* await openai.chat.completions.create({stream: true}) resolves.
ChatCreate(c) ==
    LET q == chat[c]
    IN  /\ q.pc = "create"
        /\ chat' = [chat EXCEPT ![c] = [q EXCEPT !.pc = "stream", !.aiCalls = @ + 1]]
        /\ UNCHANGED <<scoreVars, clearedAt, chatMessages, nextChatId, chatStarted>>

\* ... or rejects.
ChatCreateFails(c) ==
    LET q == chat[c]
    IN  /\ q.pc = "create"
        /\ chat' = [chat EXCEPT ![c] =
                      ChatCatch([q EXCEPT !.aiCalls = @ + 1, !.genFailed = TRUE])]
        /\ UNCHANGED <<scoreVars, clearedAt, chatMessages, nextChatId, chatStarted>>

\* ChatChunk writing an event for a chunk without text as well.
ChatChunkForwardingEmpty(c, content) ==
    LET q == chat[c]
    IN  /\ q.pc = "stream"
        /\ Len(q.arrived) < MaxChunks
        /\ chat' = [chat EXCEPT ![c] =
                      [q EXCEPT !.arrived = Append(@, content),
                                !.fullResponse = @ \o content,
                                !.events = Append(@, ContentEvent(content))]]
        /\ UNCHANGED <<scoreVars, clearedAt, chatMessages, nextChatId, chatStarted>>

\* One turn of the for-await loop: a chunk with the given text arrives.
ChatChunk(c, content) ==
    LET q == chat[c]
    IN  /\ q.pc = "stream"
        /\ Len(q.arrived) < MaxChunks
        /\ chat' = [chat EXCEPT ![c] =
                      IF content # <<>>
                      THEN [q EXCEPT !.arrived = Append(@, content),
                                     !.fullResponse = @ \o content,
                                     !.events = Append(@, ContentEvent(content))]
                      ELSE [q EXCEPT !.arrived = Append(@, content)]]
        /\ UNCHANGED <<scoreVars, clearedAt, chatMessages, nextChatId, chatStarted>>

\* ChatStreamFails saving the part of the reply that had arrived.
ChatStreamFailsSavingPartial(c) ==
    LET q == chat[c]
    IN  /\ q.pc = "stream"
        /\ chat' = [chat EXCEPT ![c] = ChatCatch([q EXCEPT !.genFailed = TRUE])]
        /\ chatMessages' = saveChatMessage(q.userId, "assistant", q.fullResponse)
        /\ nextChatId' = nextChatId + 1
        /\ UNCHANGED <<scoreVars, clearedAt, chatStarted>>

\* ChatStreamFails taking the user's message back.
ChatStreamFailsRollingBack(c) ==
    LET q == chat[c]
    IN  /\ q.pc = "stream"
        /\ chat' = [chat EXCEPT ![c] = ChatCatch([q EXCEPT !.genFailed = TRUE])]
        /\ chatMessages' = SelectSeq(chatMessages, LAMBDA m : m.id # q.msgId)
        /\ UNCHANGED <<scoreVars, clearedAt, nextChatId, chatStarted>>

\* The stream throws while it is iterated.
ChatStreamFails(c) ==
    LET q == chat[c]
    IN  /\ q.pc = "stream"
        /\ chat' = [chat EXCEPT ![c] = ChatCatch([q EXCEPT !.genFailed = TRUE])]
        /\ UNCHANGED <<scoreVars, clearedAt, chatMessages, nextChatId, chatStarted>>

\* The stream is exhausted.
ChatStreamEnds(c) ==
    LET q == chat[c]
    IN  /\ q.pc = "stream"
        /\ chat' = [chat EXCEPT ![c] = [q EXCEPT !.pc = "saveAssistant"]]
        /\ UNCHANGED <<scoreVars, clearedAt, chatMessages, nextChatId, chatStarted>>

\* await saveChatMessage(userId, "assistant", fullResponse).
ChatSaveAssistant(c) ==
    LET q == chat[c]
    IN  /\ q.pc = "saveAssistant"
        /\ chatMessages' = saveChatMessage(q.userId, "assistant", q.fullResponse)
        /\ nextChatId' = nextChatId + 1
        /\ chat' = [chat EXCEPT ![c] = [q EXCEPT !.pc = "done", !.assistantId = nextChatId]]
        /\ UNCHANGED <<scoreVars, clearedAt, chatStarted>>

\* res.write("data: [DONE]\n\n"); res.end().
ChatDone(c) ==
    LET q == chat[c]
    IN  /\ q.pc = "done"
        /\ chat' = [chat EXCEPT ![c] =
                      [q EXCEPT !.pc = "ended", !.events = Append(@, DoneEvent)]]
        /\ UNCHANGED <<scoreVars, clearedAt, chatMessages, nextChatId, chatStarted>>

\* A statement awaited from the store rejects.
ChatStoreFails(c) ==
    LET q == chat[c]
    IN  /\ q.pc \in {"getHistory", "saveUser", "openStream", "saveAssistant"}
        /\ chat' = [chat EXCEPT ![c] = ChatCatch(q)]
        /\ UNCHANGED <<scoreVars, clearedAt, chatMessages, nextChatId, chatStarted>>

\* The response has ended (res.end or res.json) and the request is over.
ChatEnd(c) ==
    /\ chat[c].pc = "ended"
    /\ chat' = [chat EXCEPT ![c] = IdleChat]
    /\ UNCHANGED <<scoreVars, clearedAt, chatMessages, nextChatId, chatStarted>>

\* DELETE /api/chat/messages by user u.  cleared notes, for the requests of
\* u that have saved their message, that the user cleared the chat since.
ClearChat(u) ==
    /\ \E i \in 1..Len(chatMessages) : chatMessages[i].userId = u
    /\ chatMessages' = clearChatMessages(u)
    /\ clearedAt' = [clearedAt EXCEPT ![u] = nextChatId]
    /\ chat' = [c \in ChatSlots |->
                  IF chat[c].userId = u /\ chat[c].msgId # 0
                  THEN [chat[c] EXCEPT !.cleared = TRUE]
                  ELSE chat[c]]
    /\ UNCHANGED <<scoreVars, nextChatId, chatStarted>>

NextChat ==
    \/ \E c \in ChatSlots, u \in Users \cup {NoUser}, body \in ChatBodies :
          chatStarted < MaxChatRequests /\ ChatRequest(c, u, body)
    \/ \E c \in ChatSlots : ChatGetHistory(c)
    \/ \E c \in ChatSlots : ChatSaveUser(c)
    \/ \E c \in ChatSlots, now \in Clock : ChatOpenStream(c, now)
    \/ \E c \in ChatSlots : ChatCreate(c)
    \/ \E c \in ChatSlots : ChatCreateFails(c)
    \/ \E c \in ChatSlots, content \in Fragments : ChatChunk(c, content)
    \/ \E c \in ChatSlots : ChatStreamFails(c)
    \/ \E c \in ChatSlots : ChatStreamEnds(c)
    \/ \E c \in ChatSlots : ChatSaveAssistant(c)
    \/ \E c \in ChatSlots : ChatDone(c)
    \/ \E c \in ChatSlots : ChatStoreFails(c)
    \/ \E c \in ChatSlots : ChatEnd(c)
    \/ \E u \in Users : ClearChat(u)

SpecChat == Init /\ [][NextChat]_vars

\* One user chatting turn after turn; every reply is one fragment, or the
\* generation call fails.
NextHistory ==
    \/ \E body \in ChatBodies :
          chatStarted < MaxHistoryRequests /\ ~Falsy(body) /\ ChatRequest(1, 1, body)
    \/ ChatGetHistory(1)
    \/ ChatSaveUser(1)
    \/ \E now \in Clock : ChatOpenStream(1, now)
    \/ ChatCreate(1)
    \/ ChatCreateFails(1)
    \/ chat[1].arrived = <<>> /\ ChatChunk(1, <<"Start">>)
    \/ chat[1].arrived # <<>> /\ ChatStreamEnds(1)
    \/ ChatSaveAssistant(1)
    \/ ChatDone(1)
    \/ ChatEnd(1)

SpecHistory == Init /\ [][NextHistory]_vars

\* ---------------------------------------------------------- auth routes
\* POST /api/auth/register by client k arrives and is handled in the first
\* free slot: a body that insertUserSchema rejects is answered 400.
Register(a, k, body) ==
    /\ auth[a].pc = "idle"
    /\ \A a2 \in AuthSlots : a2 < a => auth[a2].pc # "idle"
    /\ authStarted' = authStarted + 1
    /\ auth' = [auth EXCEPT ![a] =
                  IF body.valid
                  THEN [IdleAuth EXCEPT !.pc = "regCheck", !.kind = "register",
                                        !.client = k, !.username = body.username,
                                        !.email = body.email, !.password = body.password]
                  ELSE [IdleAuth EXCEPT !.pc = "respond", !.kind = "register",
                                        !.client = k, !.status = 400,
                                        !.body = "Invalid input"]]
    /\ UNCHANGED <<tz, entries, dailyScores, weeklyScores, nextId, req, started, wbRef, wbOut,
                   del, chatVars, board, http, coachVars, users, sessions>>

\* await getUserByUsername: a user found is answered 409.
RegisterCheck(a) ==
    LET q == auth[a]
        existing == getUserByUsername(q.username)
    IN  /\ q.pc = "regCheck"
        /\ auth' = [auth EXCEPT ![a] =
                      IF existing # NoRow
                      THEN [q EXCEPT !.pc = "respond", !.status = 409,
                                     !.body = "Username already taken"]
                      ELSE [q EXCEPT !.pc = "regInsert"]]
        /\ UNCHANGED <<tz, entries, dailyScores, weeklyScores, nextId, req, started, wbRef,
                       wbOut, del, chatVars, board, http, coachVars, users, sessions, authStarted>>

\* The catch block of the register route for a violated constraint.
RegisterCatch(q, constraint) ==
    IF IncludesEmail(constraint)
    THEN [q EXCEPT !.pc = "respond", !.status = 409, !.body = "Email already in use"]
    ELSE [q EXCEPT !.pc = "respond", !.status = 500, !.body = "Failed to register"]

\* RegisterCatch reporting every violated constraint as a conflict.
RegisterCatchAnyConstraint(q, constraint) ==
    [q EXCEPT !.pc = "respond", !.status = 409, !.body = "Email already in use"]

\* await createUser: the insert takes a value of the serial counter and
\* either violates a unique constraint (reported by the catch block; when
\* both are violated the database names either) or stores the user, whose id
\* becomes the session's userId, answered 201.
RegisterInsert(a) ==
    LET q == auth[a]
        violated == ViolatedConstraints(q.username, q.email)
    IN  /\ q.pc = "regInsert"
        /\ nextId.users <= MaxUserId
        /\ nextId' = [nextId EXCEPT !.users = @ + 1]
        /\ IF violated # {}
           THEN /\ \E constraint \in violated :
                      auth' = [auth EXCEPT ![a] = RegisterCatch(q, constraint)]
                /\ UNCHANGED <<users, sessions>>
           ELSE /\ users' = users \cup {[id |-> nextId.users, username |-> q.username,
                                          email |-> q.email,
                                          password |-> Hash(q.password)]}
                /\ sessions' = [sessions EXCEPT ![q.client] = nextId.users]
                /\ auth' = [auth EXCEPT ![a] =
                              [q EXCEPT !.pc = "respond", !.createdId = nextId.users,
                                        !.status = 201, !.body = "user"]]
        /\ UNCHANGED <<tz, entries, dailyScores, weeklyScores, req, started, wbRef, wbOut,
                       del, chatVars, board, http, coachVars, authStarted>>

\* Login answering an unknown username with a message of its own.
LoginLookupTellingUnknown(a) ==
    LET q == auth[a]
        user == getUserByUsername(q.username)
    IN  /\ q.pc = "loginLookup"
        /\ auth' = [auth EXCEPT ![a] =
                      IF user = NoRow
                      THEN [q EXCEPT !.pc = "respond", !.status = 401,
                                     !.body = "User not found"]
                      ELSE [q EXCEPT !.pc = "loginVerify", !.found = user]]
        /\ UNCHANGED <<tz, entries, dailyScores, weeklyScores, nextId, req, started, wbRef,
                       wbOut, del, chatVars, board, http, coachVars, users, sessions, authStarted>>

\* POST /api/auth/login by client k arrives: a body that loginSchema rejects
\* is answered 400.
Login(a, k, body) ==
    /\ auth[a].pc = "idle"
    /\ \A a2 \in AuthSlots : a2 < a => auth[a2].pc # "idle"
    /\ authStarted' = authStarted + 1
    /\ auth' = [auth EXCEPT ![a] =
                  IF body.username # "" /\ body.password # ""
                  THEN [IdleAuth EXCEPT !.pc = "loginLookup", !.kind = "login",
                                        !.client = k, !.username = body.username,
                                        !.password = body.password]
                  ELSE [IdleAuth EXCEPT !.pc = "respond", !.kind = "login",
                                        !.client = k, !.status = 400,
                                        !.body = "Invalid input"]]
    /\ UNCHANGED <<tz, entries, dailyScores, weeklyScores, nextId, req, started, wbRef, wbOut,
                   del, chatVars, board, http, coachVars, users, sessions>>

\* await getUserByUsername: no user is answered 401.
LoginLookup(a) ==
    LET q == auth[a]
        user == getUserByUsername(q.username)
    IN  /\ q.pc = "loginLookup"
        /\ auth' = [auth EXCEPT ![a] =
                      IF user = NoRow
                      THEN [q EXCEPT !.pc = "respond", !.status = 401,
                                     !.body = "Invalid credentials"]
                      ELSE [q EXCEPT !.pc = "loginVerify", !.found = user]]
        /\ UNCHANGED <<tz, entries, dailyScores, weeklyScores, nextId, req, started, wbRef,
                       wbOut, del, chatVars, board, http, coachVars, users, sessions, authStarted>>

\* await verifyPassword: a wrong password is answered 401; otherwise the
\* user's id becomes the session's userId, answered 200.
LoginVerify(a) ==
    LET q == auth[a]
        valid == verifyPassword(q.password, q.found[1].password)
    IN  /\ q.pc = "loginVerify"
        /\ IF valid
           THEN /\ sessions' = [sessions EXCEPT ![q.client] = q.found[1].id]
                /\ auth' = [auth EXCEPT ![a] =
                              [q EXCEPT !.pc = "respond", !.status = 200, !.body = "user"]]
           ELSE /\ sessions' = sessions
                /\ auth' = [auth EXCEPT ![a] =
                              [q EXCEPT !.pc = "respond", !.status = 401,
                                        !.body = "Invalid credentials"]]
        /\ UNCHANGED <<tz, entries, dailyScores, weeklyScores, nextId, req, started, wbRef,
                       wbOut, del, chatVars, board, http, coachVars, users, authStarted>>

\* The answer of a register or login request is sent.
AuthRespond(a) ==
    /\ auth[a].pc = "respond"
    /\ auth' = [auth EXCEPT ![a] = IdleAuth]
    /\ UNCHANGED <<tz, entries, dailyScores, weeklyScores, nextId, req, started, wbRef, wbOut,
                   del, chatVars, board, http, coachVars, users, sessions, authStarted>>

\* POST /api/auth/logout by client k: req.session.destroy.
Logout(k) ==
    /\ sessions[k] # NoUser
    /\ sessions' = [sessions EXCEPT ![k] = NoUser]
    /\ UNCHANGED <<tz, entries, dailyScores, weeklyScores, nextId, req, started, wbRef, wbOut,
                   del, chatVars, board, http, coachVars, users, auth, authStarted>>

NextAuth ==
    \/ \E a \in AuthSlots, k \in Clients, body \in RegisterBodies :
          authStarted < MaxAuthRequests /\ Register(a, k, body)
    \/ \E a \in AuthSlots : RegisterCheck(a)
    \/ \E a \in AuthSlots : RegisterInsert(a)
    \/ \E a \in AuthSlots, k \in Clients, body \in LoginBodies :
          authStarted < MaxAuthRequests /\ Login(a, k, body)
    \/ \E a \in AuthSlots : LoginLookup(a)
    \/ \E a \in AuthSlots : LoginVerify(a)
    \/ \E a \in AuthSlots : AuthRespond(a)
    \/ \E k \in Clients : Logout(k)

SpecAuth == Init /\ [][NextAuth]_vars

\* ------------------------------------------- routes behind requireAuth
\* requireAuth skipping the check of the session.
requireAuthSkipped(u) == TRUE

\* requireAuth: next() is called when the session has a userId.
requireAuth(u) == u # NoUser

\* requireAuth without a session: 401, and the handler is not called.
NotAuthenticated(route) ==
    /\ http = NoAnswer
    /\ http' = [NoAnswer EXCEPT !.route = route, !.status = 401]
    /\ UNCHANGED <<tz, entries, dailyScores, weeklyScores, nextId, req, started, wbRef, wbOut,
                   del, chatVars, board, authVars, coachVars>>

\* POST /api/entries with session user u (the payload is valid).
PostEntries(u, d) ==
    IF requireAuth(u) THEN CreateEntry(u, d) ELSE NotAuthenticated("POST /api/entries")

\* GET /api/entries with session user u at the instant now; query is
\* req.query.date, 0 when it is absent.
GetEntries(u, query, now) ==
    IF requireAuth(u)
    THEN LET date == IF query = 0 THEN toISODate(now) ELSE query
         IN  /\ http = NoAnswer
             /\ http' = [NoAnswer EXCEPT !.route = "GET /api/entries", !.userId = u,
                                         !.status = 200,
                                         !.rows = getEntriesByDate(u, date)]
             /\ UNCHANGED <<tz, entries, dailyScores, weeklyScores, nextId, req, started, wbRef, wbOut,
                            del, chatVars, board, authVars, coachVars>>
    ELSE NotAuthenticated("GET /api/entries")

\* GET /api/entries/range with session user u; start and end are 0 when
\* absent.
GetEntriesRange(u, start, end) ==
    IF requireAuth(u)
    THEN /\ http = NoAnswer
         /\ http' = IF start = 0 \/ end = 0
                    THEN [NoAnswer EXCEPT !.route = "GET /api/entries/range",
                                          !.userId = u, !.status = 400]
                    ELSE [NoAnswer EXCEPT !.route = "GET /api/entries/range",
                                          !.userId = u, !.status = 200,
                                          !.rows = getEntriesByDateRange(u, start, end)]
         /\ UNCHANGED <<tz, entries, dailyScores, weeklyScores, nextId, req, started, wbRef, wbOut,
                        del, chatVars, board, authVars, coachVars>>
    ELSE NotAuthenticated("GET /api/entries/range")

\* GET /api/scores/daily with session user u at the instant now.
GetScoresDaily(u, now) ==
    IF requireAuth(u)
    THEN LET week == getWeekBoundsNow(now)
         IN  /\ http = NoAnswer
             /\ http' = [NoAnswer EXCEPT !.route = "GET /api/scores/daily", !.userId = u,
                                         !.status = 200,
                                         !.rows = getDailyScores(u, week.weekStart,
                                                                 week.weekEnd)]
             /\ UNCHANGED <<tz, entries, dailyScores, weeklyScores, nextId, req, started, wbRef, wbOut,
                            del, chatVars, board, authVars, coachVars>>
    ELSE NotAuthenticated("GET /api/scores/daily")

\* GET /api/chat/messages with session user u.
GetChatMessages(u) ==
    IF requireAuth(u)
    THEN /\ http = NoAnswer
         /\ http' = [NoAnswer EXCEPT !.route = "GET /api/chat/messages", !.userId = u,
                                     !.status = 200, !.messages = getChatMessages(u)]
         /\ UNCHANGED <<tz, entries, dailyScores, weeklyScores, nextId, req, started, wbRef, wbOut,
                        del, chatVars, board, authVars, coachVars>>
    ELSE NotAuthenticated("GET /api/chat/messages")

\* DELETE /api/chat/messages with session user u.
DeleteChatMessages(u) ==
    IF requireAuth(u) THEN ClearChat(u) ELSE NotAuthenticated("DELETE /api/chat/messages")

\* The answer of the read request is sent.
HttpRespond ==
    /\ http # NoAnswer
    /\ http' = NoAnswer
    /\ UNCHANGED <<tz, entries, dailyScores, weeklyScores, nextId, req, started, wbRef, wbOut,
                   del, chatVars, board, authVars, coachVars>>

\* The logins of the two registered users, and one with a wrong password.
AppLogins ==
    {[username |-> "ann", password |-> "ann-pw"],
     [username |-> "bob", password |-> "bob-pw"],
     [username |-> "ann", password |-> "nope"]}

\* No request is being handled.
Quiet ==
    /\ \A r \in Slots : req[r].pc = "idle"
    /\ \A c \in ChatSlots : chat[c].pc = "idle"
    /\ \A a \in AuthSlots : auth[a].pc = "idle"
    /\ board = NoBoard
    /\ http = NoAnswer

\* Two clients logging in and out and calling the routes behind requireAuth
\* with the userId of their session, request after request.
NextApp ==
    \/ \E k \in Clients, body \in AppLogins :
          Quiet /\ authStarted < MaxAppLogins /\ Login(1, k, body)
    \/ LoginLookup(1)
    \/ LoginVerify(1)
    \/ AuthRespond(1)
    \/ \E k \in Clients : Quiet /\ Logout(k)
    \/ \E k \in Clients, d \in Dates : Quiet /\ PostEntries(sessions[k], d)
    \/ \E k \in Clients, query \in Dates \cup {0}, now \in Clock :
          Quiet /\ GetEntries(sessions[k], query, now)
    \/ \E k \in Clients, start \in Dates \cup {0}, end \in Dates \cup {0} :
          Quiet /\ GetEntriesRange(sessions[k], start, end)
    \/ \E k \in Clients, id \in EntryIds :
          Quiet /\ del.n < MaxAppDeletes /\ DeleteEntry(sessions[k], id)
    \/ \E k \in Clients, d \in Dates :
          Quiet /\ started < MaxAppScores /\ ScoreRequest(1, sessions[k], d)
    \/ ScoreGetEntries(1)
    \/ ScoreGenerate(1, [kind |-> "object", score |-> JNum(850), insight |-> <<"Solid day.">>])
    \/ ScoreGenerateFails(1)
    \/ SaveDailySelect(1)
    \/ SaveDailyWrite(1)
    \/ ScoreGetWeek(1)
    \/ SaveWeeklySelect(1)
    \/ SaveWeeklyWrite(1)
    \/ ScoreRespond(1)
    \/ \E k \in Clients, now \in Clock : Quiet /\ GetScoresDaily(sessions[k], now)
    \/ \E k \in Clients, now \in Clock : Quiet /\ GetScoreboard(sessions[k], now)
    \/ ScoreboardRespond
    \/ \E k \in Clients : Quiet /\ GetChatMessages(sessions[k])
    \/ \E k \in Clients : Quiet /\ DeleteChatMessages(sessions[k])
    \/ \E k \in Clients, body \in ChatBodies :
          Quiet /\ chatStarted < MaxAppChats /\ ChatRequest(1, sessions[k], body)
    \/ ChatGetHistory(1)
    \/ ChatSaveUser(1)
    \/ \E now \in Clock : ChatOpenStream(1, now)
    \/ ChatCreate(1)
    \/ ChatCreateFails(1)
    \/ chat[1].arrived = <<>> /\ ChatChunk(1, <<"Start">>)
    \/ chat[1].arrived # <<>> /\ ChatStreamEnds(1)
    \/ ChatSaveAssistant(1)
    \/ ChatDone(1)
    \/ ChatEnd(1)
    \/ HttpRespond

\* The server runs in UTC.
InitApp == Init /\ tz = 0

SpecApp == InitApp /\ [][NextApp]_vars

\* The two registered users, both logged in, calling the routes behind
\* requireAuth, request after request.
NextOwners ==
    \/ \E u \in Users, d \in Dates : Quiet /\ PostEntries(u, d)
    \/ \E u \in Users, query \in Dates \cup {0}, now \in Clock :
          Quiet /\ GetEntries(u, query, now)
    \/ \E u \in Users, start \in Dates, end \in Dates :
          Quiet /\ GetEntriesRange(u, start, end)
    \/ \E u \in Users : Quiet /\ del.n < MaxAppDeletes /\ DeleteEntry(u, 1)
    \/ \E u \in Users, d \in Dates :
          Quiet /\ started < MaxOwnerScores /\ ScoreRequest(1, u, d)
    \/ ScoreGetEntries(1)
    \/ ScoreGenerate(1, [kind |-> "object", score |-> JNum(850), insight |-> <<"Solid day.">>])
    \/ ScoreGenerateFails(1)
    \/ SaveDailySelect(1)
    \/ SaveDailyWrite(1)
    \/ ScoreGetWeek(1)
    \/ SaveWeeklySelect(1)
    \/ SaveWeeklyWrite(1)
    \/ ScoreRespond(1)
    \/ \E u \in Users, now \in Clock : Quiet /\ GetScoresDaily(u, now)
    \/ \E u \in Users : Quiet /\ GetChatMessages(u)
    \/ \E u \in Users : Quiet /\ DeleteChatMessages(u)
    \/ \E u \in Users :
          Quiet /\ chatStarted < MaxOwnerChats
             /\ ChatRequest(1, u, [given |-> TRUE, text |-> <<"Plan my day.">>])
    \/ ChatGetHistory(1)
    \/ ChatSaveUser(1)
    \/ \E now \in Clock : ChatOpenStream(1, now)
    \/ ChatCreate(1)
    \/ ChatCreateFails(1)
    \/ chat[1].arrived = <<>> /\ ChatChunk(1, <<"Start">>)
    \/ chat[1].arrived # <<>> /\ ChatStreamEnds(1)
    \/ ChatSaveAssistant(1)
    \/ ChatDone(1)
    \/ ChatEnd(1)
    \/ HttpRespond

SpecOwners == InitApp /\ [][NextOwners]_vars

\* ------------------------------------------------------ coach screen steps
\* Everything but the coach screen and the messages stored for its user.
serverVars ==
    <<tz, entries, dailyScores, weeklyScores, nextId, req, started, wbRef, wbOut, del,
      chatVars, board, authVars, http>>

\* The user edits the text field.
SetInputText(text) ==
    /\ inputText' = text
    /\ UNCHANGED <<serverVars, messages, isStreaming, showTyping, initializedRef,
                   historyData, historyPending, clearing, sends, sendCount, clearCount,
                   stored>>

\* The history rows as bubbles; generateId gives the i-th bubble of a
\* mapping an id of its own.
MapHistory(rows) ==
    [i \in 1..Len(rows) |->
        [id |-> <<"history", i>>, role |-> rows[i].role, content |-> rows[i].content]]

\* The history query is answered with the messages stored, and the effect on
\* historyQuery.data runs: the first data replaces the list of bubbles.
HistoryArrives ==
    /\ historyPending
    /\ historyPending' = FALSE
    /\ historyData' = [loaded |-> TRUE, rows |-> stored]
    /\ IF ~initializedRef
       THEN /\ messages' = MapHistory(stored)
            /\ initializedRef' = TRUE
       ELSE UNCHANGED <<messages, initializedRef>>
    /\ UNCHANGED <<serverVars, inputText, isStreaming, showTyping, clearing, sends, sendCount,
                   clearCount, stored>>

\* The history query fails: historyQuery.data stays as it is.
HistoryFails ==
    /\ historyPending
    /\ historyPending' = FALSE
    /\ UNCHANGED <<serverVars, messages, inputText, isStreaming, showTyping, initializedRef,
                   historyData, clearing, sends, sendCount, clearCount, stored>>

\* clearMutation.mutate(): DELETE /api/chat/messages is handled by the server.
ClearPressed ==
    /\ ~clearing
    /\ clearing' = TRUE
    /\ clearCount' = clearCount + 1
    /\ stored' = <<>>
    /\ UNCHANGED <<serverVars, messages, inputText, isStreaming, showTyping, initializedRef,
                   historyData, historyPending, sends, sendCount>>

\* onSuccess of clearMutation: the list is emptied and the history query is
\* invalidated, which fetches it again.
ClearSucceeds ==
    /\ clearing
    /\ clearing' = FALSE
    /\ messages' = <<>>
    /\ historyPending' = TRUE
    /\ UNCHANGED <<serverVars, inputText, isStreaming, showTyping, initializedRef,
                   historyData, sends, sendCount, clearCount, stored>>

\* handleSend without the check of isStreaming.
handleSendWhileStreaming(s) ==
    LET text == Trim(inputText)
    IN  /\ sends[s].pc = "idle"
        /\ \A s2 \in SendSlots : s2 < s => sends[s2].pc # "idle"
        /\ IF text = <<>>
           THEN UNCHANGED <<messages, inputText, isStreaming, showTyping, sends, sendCount>>
           ELSE /\ inputText' = <<>>
                /\ messages' = Append(messages, [id |-> <<"user", sendCount + 1>>,
                                                  role |-> "user", content |-> text])
                /\ isStreaming' = TRUE
                /\ showTyping' = TRUE
                /\ sendCount' = sendCount + 1
                /\ sends' = [sends EXCEPT ![s] =
                               [IdleSend EXCEPT !.pc = "fetch", !.n = sendCount + 1,
                                                !.text = text]]
        /\ UNCHANGED <<serverVars, initializedRef, historyData, historyPending, clearing,
                       clearCount, stored>>

\* handleSend up to its first await: nothing while the trimmed text is empty
\* or isStreaming; otherwise the field is emptied, the user's bubble added,
\* both flags raised and the request sent.
handleSend(s) ==
    LET text == Trim(inputText)
    IN  /\ sends[s].pc = "idle"
        /\ \A s2 \in SendSlots : s2 < s => sends[s2].pc # "idle"
        /\ IF text = <<>> \/ isStreaming
           THEN UNCHANGED <<messages, inputText, isStreaming, showTyping, sends, sendCount>>
           ELSE /\ inputText' = <<>>
                /\ messages' = Append(messages, [id |-> <<"user", sendCount + 1>>,
                                                  role |-> "user", content |-> text])
                /\ isStreaming' = TRUE
                /\ showTyping' = TRUE
                /\ sendCount' = sendCount + 1
                /\ sends' = [sends EXCEPT ![s] =
                               [IdleSend EXCEPT !.pc = "fetch", !.n = sendCount + 1,
                                                !.text = text]]
        /\ UNCHANGED <<serverVars, initializedRef, historyData, historyPending, clearing,
                       clearCount, stored>>

\* The catch and finally blocks of handleSend leaving the typing indicator.
SendCatchKeepingTyping(s) ==
    /\ messages' = Append(messages, [id |-> <<"sorry", sends[s].n>>, role |-> "assistant",
                                      content |-> SorryMsg])
    /\ isStreaming' = FALSE
    /\ showTyping' = showTyping
    /\ sends' = [sends EXCEPT ![s] = IdleSend]

\* The catch block of handleSend, then its finally block.
SendCatch(s) ==
    /\ messages' = Append(messages, [id |-> <<"sorry", sends[s].n>>, role |-> "assistant",
                                      content |-> SorryMsg])
    /\ isStreaming' = FALSE
    /\ showTyping' = FALSE
    /\ sends' = [sends EXCEPT ![s] = IdleSend]

\* await fetch resolves with the event stream: the server has stored the
\* user's message and opened the stream.
FetchResponds(s) ==
    /\ sends[s].pc = "fetch"
    /\ stored' = Append(stored, [role |-> "user", content |-> sends[s].text])
    /\ sends' = [sends EXCEPT ![s].pc = "read"]
    /\ UNCHANGED <<serverVars, messages, inputText, isStreaming, showTyping, initializedRef,
                   historyData, historyPending, clearing, sendCount, clearCount>>

\* await fetch rejects, or resolves with a response that is not ok (whether
\* or not the server had stored the user's message): the error is thrown.
FetchFails(s, saved) ==
    /\ sends[s].pc = "fetch"
    /\ stored' = IF saved
                 THEN Append(stored, [role |-> "user", content |-> sends[s].text])
                 ELSE stored
    /\ SendCatch(s)
    /\ UNCHANGED <<serverVars, inputText, initializedRef, historyData, historyPending,
                   clearing, sendCount, clearCount>>

\* await reader.read() gives the line of one event.  A fragment is added to
\* fullContent; the first one hides the typing indicator and adds the
\* assistant's bubble, the later ones write fullContent into the last
\* element of the list (index -1 of an empty list is no element).
ReadEvent(s, event) ==
    LET q == sends[s]
        fullContent == q.fullContent \o event.content
    IN  /\ q.pc = "read"
        /\ q.reads < MaxFragments
        /\ IF event.type # "content"
           THEN /\ sends' = [sends EXCEPT ![s].reads = @ + 1]
                /\ UNCHANGED <<messages, showTyping>>
           ELSE /\ sends' = [sends EXCEPT ![s] =
                               [q EXCEPT !.reads = @ + 1, !.fullContent = fullContent,
                                         !.assistantAdded = TRUE]]
                /\ IF ~q.assistantAdded
                   THEN /\ showTyping' = FALSE
                        /\ messages' = Append(messages,
                                              [id |-> <<"assistant", q.n>>,
                                               role |-> "assistant",
                                               content |-> fullContent])
                   ELSE /\ showTyping' = showTyping
                        /\ messages' =
                              IF messages = <<>>
                              THEN messages
                              ELSE [messages EXCEPT ![Len(messages)].content = fullContent]
        /\ UNCHANGED <<serverVars, inputText, isStreaming, initializedRef, historyData,
                       historyPending, clearing, sendCount, clearCount, stored>>

\* await reader.read() reports the end of the stream, after which the server
\* stores the reply: the loop is left and the finally block runs.
ReadDone(s) ==
    /\ sends[s].pc = "read"
    /\ isStreaming' = FALSE
    /\ showTyping' = FALSE
    /\ stored' = IF sends[s].fullContent = <<>>
                 THEN stored
                 ELSE Append(stored, [role |-> "assistant",
                                      content |-> sends[s].fullContent])
    /\ sends' = [sends EXCEPT ![s] = IdleSend]
    /\ UNCHANGED <<serverVars, messages, inputText, initializedRef, historyData,
                   historyPending, clearing, sendCount, clearCount>>

\* await reader.read() rejects.
ReadThrows(s) ==
    /\ sends[s].pc = "read"
    /\ SendCatch(s)
    /\ UNCHANGED <<serverVars, inputText, initializedRef, historyData, historyPending,
                   clearing, sendCount, clearCount, stored>>

\* A step of the send in progress in slot s.
SendStep(s) ==
    \/ FetchResponds(s)
    \/ \E saved \in BOOLEAN : FetchFails(s, saved)
    \/ \E event \in StreamEvents : ReadEvent(s, event)
    \/ ReadDone(s)
    \/ ReadThrows(s)

NextCoach ==
    \/ \E text \in InputTexts : SetInputText(text)
    \/ HistoryArrives
    \/ HistoryFails
    \/ clearCount < MaxClears /\ ClearPressed
    \/ ClearSucceeds
    \/ \E s \in SendSlots : sendCount < MaxSends /\ handleSend(s)
    \/ \E s \in SendSlots : FetchResponds(s)
    \/ \E s \in SendSlots, saved \in BOOLEAN : FetchFails(s, saved)
    \/ \E s \in SendSlots, event \in StreamEvents : ReadEvent(s, event)
    \/ \E s \in SendSlots : ReadDone(s)
    \/ \E s \in SendSlots : ReadThrows(s)

SpecCoach == InitApp /\ [][NextCoach]_vars

\* The network answers every request and every stream ends or breaks.
SpecCoachFair == SpecCoach /\ \A s \in SendSlots : WF_vars(SendStep(s))

\* One client logging and scoring, request after request, while the
\* scoreboard is asked for.
NextBoard ==
    \/ \E u \in Users, d \in Dates : CreateEntry(u, d)
    \/ \E u \in Users \cup {NoUser}, now \in Clock : GetScoreboard(u, now)
    \/ ScoreboardRespond
    \/ \E u \in Users \cup {NoUser}, d \in Dates :
          started < MaxRescoreRequests /\ ScoreRequest(1, u, d)
    \/ ScoreGetEntries(1)
    \/ \E content \in MainContents : ScoreGenerate(1, content)
    \/ ScoreGenerateFails(1)
    \/ SaveDailySelect(1)
    \/ SaveDailyWrite(1)
    \/ ScoreGetWeek(1)
    \/ SaveWeeklySelect(1)
    \/ SaveWeeklyWrite(1)
    \/ ScoreRespond(1)

SpecBoard == Init /\ [][NextBoard]_vars

\* The week-bounds calculator applied to one reference date after another.
WeekBoundsCall(d) ==
    /\ wbRef' = d
    /\ wbOut' = <<getWeekBounds(d)>>
    /\ UNCHANGED <<tz, entries, dailyScores, weeklyScores, nextId, req, started,
                   del, chatVars, restVars>>

NextWeek == \E d \in RefDates : WeekBoundsCall(d)

SpecWeek == Init /\ [][NextWeek]_vars

\* ================================================================ claims
SameDailyKey(a, b) == a.userId = b.userId /\ a.date = b.date
SameWeeklyKey(a, b) == a.userId = b.userId /\ a.weekStart = b.weekStart

\* C1: in every reachable state there is at most one DailyScore row per
\* (user, date), interleaved scoring requests included.
C1_OneDailyScorePerUserDate ==
    \A a \in dailyScores, b \in dailyScores : SameDailyKey(a, b) => a = b

\* C2: in every reachable state there is at most one WeeklyScore row per
\* (user, week-start), interleaved scoring requests included.
C2_OneWeeklyScorePerUserWeek ==
    \A a \in weeklyScores, b \in weeklyScores : SameWeeklyKey(a, b) => a = b

\* The write of saveDailyScore (saveWeeklyScore) by request r, called when
\* its key already had a row.
DailyOverwriteStep(r) ==
    req[r].pc = "dsWrite" /\ req'[r].pc = "getWeek" /\ req[r].dailyHadRow

WeeklyOverwriteStep(r) ==
    req[r].pc = "wsWrite" /\ req'[r].pc = "respond" /\ req[r].weeklyHadRow

DailyOverwritten(r) ==
    LET q == req[r]
        mine(s) == s.userId = q.userId /\ s.date = q.date
    IN  /\ Cardinality(dailyScores') = Cardinality(dailyScores)
        /\ {s.id : s \in dailyScores'} = {s.id : s \in dailyScores}
        /\ \A s \in dailyScores' : mine(s) => s.score = q.score /\ s.aiInsight = q.insight
        /\ {s \in dailyScores' : ~mine(s)} = {s \in dailyScores : ~mine(s)}
        /\ weeklyScores' = weeklyScores

WeeklyOverwritten(r) ==
    LET q == req[r]
        mine(w) == w.userId = q.userId /\ w.weekStart = q.weekStart
    IN  /\ Cardinality(weeklyScores') = Cardinality(weeklyScores)
        /\ {w.id : w \in weeklyScores'} = {w.id : w \in weeklyScores}
        /\ \A w \in weeklyScores' : mine(w) => w.avgScore = q.avg /\ w.totalEntries = q.count
        /\ {w \in weeklyScores' : ~mine(w)} = {w \in weeklyScores : ~mine(w)}
        /\ dailyScores' = dailyScores

\* C3: saveDailyScore (saveWeeklyScore) called for a key that already has a
\* row leaves the number of rows unchanged, makes the row of that key hold
\* the new score and insight (average and count), and changes no row of
\* another key.
C3_UpsertOverwrites ==
    [][\A r \in Slots : /\ DailyOverwriteStep(r) => DailyOverwritten(r)
                        /\ WeeklyOverwriteStep(r) => WeeklyOverwritten(r)]_vars

\* C3 witness: a request that found a row for its date and one for its week
\* has overwritten both.
C3_Witness ==
    \E r \in Slots :
        /\ req[r].pc = "respond" /\ req[r].dailyHadRow /\ req[r].weeklyHadRow
        /\ \E s \in dailyScores :
              /\ s.userId = req[r].userId /\ s.date = req[r].date
              /\ s.score = req[r].score /\ s.aiInsight = req[r].insight
        /\ \E w \in weeklyScores :
              /\ w.userId = req[r].userId /\ w.weekStart = req[r].weekStart
              /\ w.avgScore = req[r].avg /\ w.totalEntries = req[r].count
        /\ \E s \in dailyScores : s.userId # req[r].userId \/ s.date # req[r].date
        /\ \E w \in weeklyScores :
              w.userId # req[r].userId \/ w.weekStart # req[r].weekStart

\* The Monday of the Monday-to-Sunday week containing a date.
MondayOf(date) == date - ((date + 3) % 7)

DailyRowsIn(userId, first, last) ==
    {s \in dailyScores : s.userId = userId /\ first <= s.date /\ s.date <= last}

\* Half-up rounding of sum / n, both counted in tenths.
MeanToOneDecimal(sum, n) ==
    CHOOSE m \in 0..(100 * Scale) : 2 * n * m <= 2 * sum + n /\ 2 * sum + n < 2 * n * (m + 1)

WeeklyRowIsMeanOf(w, rows) ==
    /\ rows # {}
    /\ w.totalEntries = Cardinality(rows)
    /\ w.avgScore = MeanToOneDecimal(SumScores(rows), Cardinality(rows))

\* C4: when a scoring request completes successfully (its response is sent,
\* which changes no table), the user's WeeklyScore row of the week containing
\* the date holds the mean, rounded to one decimal, and the number of the
\* user's DailyScore rows of that Monday-to-Sunday window.
C4_WeeklyIsMeanAfterScoring ==
    [][\A r \in Slots :
          (req[r].pc = "respond" /\ req[r].status = 200 /\ req[r].hadEntries
              /\ req'[r].pc = "idle") =>
              LET u == req[r].userId
                  mon == MondayOf(req[r].date)
              IN  /\ \E w \in weeklyScores : w.userId = u /\ w.weekStart = mon
                  /\ \A w \in weeklyScores :
                        (w.userId = u /\ w.weekStart = mon) =>
                            /\ w.weekEnd = mon + 6
                            /\ WeeklyRowIsMeanOf(w, DailyRowsIn(u, mon, mon + 6))]_vars

\* C5: getWeekBounds returns a Monday and the Sunday six days later, and the
\* reference date lies between them.
C5_WeekBoundsAreMondayToSunday ==
    wbOut # <<>> =>
        /\ (wbOut[1].weekStart + 4) % 7 = 1
        /\ wbOut[1].weekEnd = wbOut[1].weekStart + 6
        /\ wbOut[1].weekStart <= wbRef
        /\ wbRef <= wbOut[1].weekEnd

Quiescent == \A r \in Slots : req[r].pc = "idle"

\* C6: once the scoring requests have completed, every WeeklyScore row holds
\* the rounded mean and the count of the DailyScore rows stored in its window.
C6_WeeklyMatchesDailyWhenQuiescent ==
    Quiescent =>
        \A w \in weeklyScores :
            WeeklyRowIsMeanOf(w, DailyRowsIn(w.userId, w.weekStart, w.weekEnd))

\* The requests whose generation call returned a reply.
Generated(r) == req[r].content # <<>>

ReplyOf(r) == req[r].content[1]

InRange(score) == 0 <= score /\ score <= 100 * Scale

\* C7: every score persisted or returned lies in [0,100], and a numeric
\* score s of the reply results in min(100, max(0, s)).
C7_ScoreIsClampedReply ==
    /\ \A s \in dailyScores : InRange(s.score)
    /\ \A r \in Slots :
          /\ req[r].status = 200 => InRange(req[r].score)
          /\ (Generated(r) /\ ReplyOf(r).kind = "object" /\ ReplyOf(r).score.t = "num") =>
                LET s == ReplyOf(r).score.v
                IN  req[r].score = (IF s < 0 THEN 0 ELSE IF s > 100 * Scale THEN 100 * Scale ELSE s)

\* The score of request r is stored in every row of its key, and there is one.
Persisted(r) ==
    /\ \E s \in dailyScores : s.userId = req[r].userId /\ s.date = req[r].date
    /\ \A s \in dailyScores :
          (s.userId = req[r].userId /\ s.date = req[r].date) => s.score = req[r].score

HasSaved(r) ==
    \/ req[r].pc \in {"getWeek", "wsSelect", "wsWrite"}
    \/ req[r].pc = "respond" /\ req[r].status = 200 /\ Generated(r)

IsInteger(score) == score % Scale = 0

\* The reply's score field is a number, or a string spelling one, that is not
\* an integer and lies strictly between 0 and 100.
FractionalReply(content) ==
    /\ content.kind = "object"
    /\ \/ content.score.t = "num" /\ ~IsInteger(content.score.v)
             /\ 0 < content.score.v /\ content.score.v < 100 * Scale
       \/ content.score = JStr("72.5")

\* C8 as stated: the score produced and persisted by a scoring request is an
\* integer in [0,100], whatever the generator replies.
C8_ScoreIsIntegerInRange ==
    /\ \A s \in dailyScores : InRange(s.score) /\ IsInteger(s.score)
    /\ \A r \in Slots : Generated(r) => InRange(req[r].score) /\ IsInteger(req[r].score)

\* C8 amended: the score produced and persisted by a scoring request is a
\* number in [0,100]; it is an integer unless the reply's score is a
\* non-integer between 0 and 100, which is then kept as it is.
C8_ScoreInRangeIntegerUnlessFractional ==
    /\ \A s \in dailyScores : InRange(s.score)
    /\ \A r \in Slots :
          /\ HasSaved(r) => Persisted(r)
          /\ Generated(r) =>
                /\ InRange(req[r].score)
                /\ IsInteger(req[r].score) <=> ~FractionalReply(ReplyOf(r))

\* C8 witness: a request answered 72.5 has completed and its row holds 72.5.
C8_Witness ==
    \E r \in Slots :
        /\ req[r].pc = "respond" /\ req[r].status = 200 /\ Generated(r)
        /\ FractionalReply(ReplyOf(r)) /\ req[r].score = 725
        /\ \E s \in dailyScores :
              s.userId = req[r].userId /\ s.date = req[r].date /\ s.score = 725

\* A score field that is absent or denotes no number.
NonNumericField(f) ==
    \/ f.t \in {"missing", "null"}
    \/ f.t = "str" /\ f.s \notin {"85", "72.5"}

\* C9: the score 50 is used and persisted when the parsed reply's score
\* field is missing or non-numeric, and only then (a reply that says 50 aside).
C9_DefaultExactlyWhenNonNumeric ==
    \A r \in Slots :
        (Generated(r) /\ ReplyOf(r).kind = "object") =>
            LET f == ReplyOf(r).score
            IN  /\ NonNumericField(f) => req[r].score = 50 * Scale
                /\ (req[r].score = 50 * Scale /\ ~NonNumericField(f)) => f = JNum(50 * Scale)

\* C10: a scoring request for a user and date without entries responds with
\* score 0 and the fixed message, and never calls the generation service.
C10_NoEntriesScoreZeroNoCall ==
    \A r \in Slots :
        (req[r].userId # NoUser /\ req[r].pc # "getEntries" /\ ~req[r].hadEntries) =>
            /\ req[r].pc = "respond"
            /\ req[r].status = 200
            /\ req[r].score = 0
            /\ req[r].insight = NoActivityMsg
            /\ req[r].aiCalls = 0
            /\ ~Generated(r)

\* C10 witness: such a request has been answered while the user had entries
\* on another date.
C10_Witness ==
    \E r \in Slots :
        /\ req[r].pc = "respond" /\ req[r].userId # NoUser /\ ~req[r].hadEntries
        /\ req[r].score = 0 /\ req[r].insight = NoActivityMsg
        /\ \E e \in entries : e.userId = req[r].userId /\ e.date # req[r].date
        /\ \A e \in entries : ~(e.userId = req[r].userId /\ e.date = req[r].date)

\* C11: a scoring request for a user and date without entries creates,
\* updates and removes no DailyScore and no WeeklyScore row, from the read of
\* the entries to the answer, whatever rows the tables hold.
ZeroEntryRequest(r) ==
    /\ req[r].userId # NoUser
    /\ \/ /\ req[r].pc = "getEntries"
          /\ \A e \in entries : ~(e.userId = req[r].userId /\ e.date = req[r].date)
       \/ /\ req[r].pc # "getEntries"
          /\ req[r].pc # "idle"
          /\ ~req[r].hadEntries

C11_NoEntriesTablesUnchanged ==
    [][\A r \in Slots :
          (ZeroEntryRequest(r) /\ req'[r] # req[r])
              => /\ dailyScores' = dailyScores
                 /\ weeklyScores' = weeklyScores
                 /\ req'[r].pc = IF req[r].pc = "getEntries" THEN "respond" ELSE "idle"]_vars

\* C11 witness: such a request is being answered while the tables hold a daily
\* score of that user and date, persisted before the entries were deleted.
C11_Witness ==
    \E r \in Slots :
        /\ req[r].pc = "respond"
        /\ req[r].userId # NoUser
        /\ ~req[r].hadEntries
        /\ req[r].status = 200
        /\ \E s \in dailyScores : s.userId = req[r].userId /\ s.date = req[r].date
        /\ weeklyScores # {}

\* C12: a delete answers 200 exactly when the entry exists and belongs to
\* the requester, and then removes that entry and no other; otherwise it
\* answers 404 and every entry stays.
DeleteStep == del'.n = del.n + 1 /\ del'.userId # NoUser

OwnedEntry(u, id) == \E e \in entries : e.id = id /\ e.userId = u

Unparseable(content) == content.kind \in {"text", "objects"}

\* C13: a reply that cannot be parsed as JSON gives the score 50 with the raw
\* reply as the insight, persisted and answered 200 after the weekly
\* refresh; and no reply at all makes the request end in a server error.
C13_UnparseableReplyFallsBack ==
    \A r \in Slots :
        Generated(r) =>
            /\ req[r].status # 500
            /\ Unparseable(ReplyOf(r)) =>
                  /\ req[r].score = 50 * Scale
                  /\ req[r].insight = RawText(ReplyOf(r))
                  /\ HasSaved(r) => Persisted(r)

\* C14: when the reply holds a JSON object followed by text with further
\* braces, the score and the insight are those of the first object.
C14_FirstObjectIsUsed ==
    \A r \in Slots :
        (Generated(r) /\ ReplyOf(r).kind = "objects") =>
            /\ req[r].score = ReplyOf(r).score.v
            /\ req[r].insight = ReplyOf(r).insight[1]

\* C15: a scoring request whose generation call failed is answered 500, has
\* called the generation service exactly once and has written no DailyScore
\* and no WeeklyScore row; the failing step itself leaves both tables as
\* they are.
C15_GenerationFailure ==
    [][\A r \in Slots :
          /\ req'[r].genFailed =>
                /\ req'[r].pc = "respond"
                /\ req'[r].status = 500
                /\ req'[r].aiCalls = 1
                /\ req'[r].writes = 0
          /\ (req'[r].genFailed /\ ~req[r].genFailed) =>
                /\ dailyScores' = dailyScores
                /\ weeklyScores' = weeklyScores]_vars

\* C15 witness: a request whose generation call failed is being answered
\* while the tables hold the scores an earlier request left for its key.
C15_Witness ==
    \E r \in Slots :
        /\ req[r].genFailed
        /\ req[r].pc = "respond"
        /\ \E s \in dailyScores : s.userId = req[r].userId /\ s.date = req[r].date
        /\ weeklyScores # {}

\* C16: a chat request with an empty or missing message is answered 400 at
\* once: it saves no chat message, calls no generation service and opens no
\* event stream, and the tables are as before when it is over.
C16_EmptyMessageRejected ==
    [][\A c \in ChatSlots :
          /\ (chat[c].pc = "idle" /\ chat'[c].pc # "idle"
                 /\ chat'[c].userId # NoUser /\ Falsy(chat'[c].body))
                => /\ chat'[c].pc = "ended"
                   /\ chat'[c].status = 400
                   /\ chat'[c].msgId = 0
                   /\ chat'[c].aiCalls = 0
                   /\ ~chat'[c].headersSent
                   /\ chat'[c].events = <<>>
                   /\ chatMessages' = chatMessages
          /\ (chat[c].status = 400 /\ chat'[c] # chat[c])
                => /\ chat'[c] = IdleChat
                   /\ chatMessages' = chatMessages]_vars

\* C16 witness: a request with the message "" is answered 400 while the
\* store holds chat messages.
C16_Witness ==
    \E c \in ChatSlots :
        /\ chat[c].pc = "ended"
        /\ chat[c].status = 400
        /\ chat[c].body.given
        /\ Len(chatMessages) > 0

\* The message saved by request c is in the store, as the user's.
UserMessageStored(c) ==
    \E i \in 1..Len(chatMessages) :
        chatMessages[i] = [id |-> chat[c].msgId, userId |-> chat[c].userId,
                           role |-> "user", content |-> chat[c].body.text]

GenerationInvoked(c) == chat[c].aiCalls > 0 \/ chat[c].pc = "stream"

\* C17 as stated: the user's message is saved before the generation service
\* is invoked, and it is in the store when a request whose generation failed
\* is over.
C17_UserMessageSurvivesFailure ==
    \A c \in ChatSlots :
        /\ GenerationInvoked(c) => chat[c].msgId # 0
        /\ (chat[c].genFailed /\ chat[c].pc = "ended") => UserMessageStored(c)

\* C17 amended: the user's message is saved before the generation service is
\* invoked, and from then on it is in the store, also when the generation has
\* failed and the request is over, unless the user cleared the chat since.
C17_UserMessageSurvivesUnlessCleared ==
    \A c \in ChatSlots :
        /\ GenerationInvoked(c) => chat[c].msgId # 0
        /\ (chat[c].msgId # 0 /\ ~chat[c].cleared) => UserMessageStored(c)

\* C17 witness: a request whose stream failed after a fragment is over, and
\* its user message is stored.
C17_Witness ==
    \E c \in ChatSlots :
        /\ chat[c].genFailed
        /\ chat[c].pc = "ended"
        /\ chat[c].events # <<>>
        /\ chat[c].events[1].type = "content"
        /\ ~chat[c].cleared
        /\ UserMessageStored(c)

\* The chat messages of the user of request c stored before its own message.
PriorMessages(c) ==
    SelectSeq(chatMessages,
              LAMBDA m : m.userId = chat[c].userId /\ m.id < chat[c].msgId)

\* C18: the generation context is the system instruction, then the latest
\* min(20, n) of the user's n prior messages in creation order, then the new
\* user message, once and last.
C18_ContextIsLatestTwenty ==
    \A c \in ChatSlots :
        chat[c].context # <<>> =>
            LET prior == PriorMessages(c)
                n == Len(prior)
                k == IF n < 20 THEN n ELSE 20
                context == chat[c].context
            IN  /\ Len(context) = k + 2
                /\ context[1] = [role |-> "system", content |-> SystemPrompt]
                /\ \A i \in 1..k :
                      context[1 + i] = [role |-> prior[n - k + i].role,
                                        content |-> prior[n - k + i].content]
                /\ context[k + 2] = [role |-> "user", content |-> chat[c].body.text]

\* C18 witness: a context has been built for a user with 25 prior messages,
\* and it holds 22 elements.
C18_Witness ==
    \E c \in ChatSlots :
        /\ chat[c].context # <<>>
        /\ Len(PriorMessages(c)) = 25
        /\ Len(chat[c].context) = 22

\* The texts of the content events among the given events, in order.
ContentTexts(events) ==
    LET ce == SelectSeq(events, LAMBDA e : e.type = "content")
    IN  [i \in 1..Len(ce) |-> ce[i].text]

\* The fragments with text among those that arrived, in order.
NonEmptyFragments(arrived) == SelectSeq(arrived, LAMBDA f : f # <<>>)

RECURSIVE Concatenation(_)
Concatenation(texts) ==
    IF texts = <<>> THEN <<>> ELSE Head(texts) \o Concatenation(Tail(texts))

AssistantMessages(table) == SelectSeq(table, LAMBDA m : m.role = "assistant")

\* C19: the content events written are the fragments with text that
\* arrived, one event each and in arrival order; the request saves one
\* assistant message, when the stream has completed, and its content is the
\* concatenation of the fragments forwarded.
C19_ForwardedEqualsPersisted ==
    [][\A c \in ChatSlots :
          /\ ContentTexts(chat'[c].events) = NonEmptyFragments(chat'[c].arrived)
          /\ (chat[c].pc = "saveAssistant" /\ chat'[c].pc = "done")
                => chatMessages' =
                      Append(chatMessages,
                             [id |-> nextChatId, userId |-> chat[c].userId,
                              role |-> "assistant",
                              content |-> Concatenation(ContentTexts(chat[c].events))])
          /\ (chat'[c] # chat[c] /\ ~(chat[c].pc = "saveAssistant" /\ chat'[c].pc = "done"))
                => Len(AssistantMessages(chatMessages')) <= Len(AssistantMessages(chatMessages))]_vars

\* C19 witness: a stream of two fragments has completed; both were forwarded
\* in order and the assistant message stored is their concatenation.
C19_Witness ==
    \E c \in ChatSlots :
        /\ chat[c].pc = "ended"
        /\ chat[c].arrived = <<(<<"Start">>), (<<"small.">>)>>
        /\ chat[c].events =
              <<ContentEvent(<<"Start">>), ContentEvent(<<"small.">>), DoneEvent>>
        /\ \E i \in 1..Len(chatMessages) :
              /\ chatMessages[i].id = chat[c].assistantId
              /\ chatMessages[i].content = <<"Start", "small.">>

Terminal(e) == e.type \in {"done", "error"}

\* C20: an opened event stream that has ended holds exactly one terminal
\* event, [DONE] or an error, as its last event; a terminal event is written
\* only as the response ends, and [DONE] only after the assistant message
\* was saved.
C20_OneTerminalEvent ==
    \A c \in ChatSlots :
        LET events == chat[c].events
        IN  /\ events # <<>> => chat[c].headersSent
            /\ \A i \in 1..Len(events) :
                  Terminal(events[i]) => i = Len(events) /\ chat[c].pc = "ended"
            /\ (chat[c].headersSent /\ chat[c].pc = "ended")
                  => events # <<>> /\ Terminal(events[Len(events)])
            /\ \A i \in 1..Len(events) :
                  events[i] = DoneEvent => chat[c].assistantId # 0

\* C20 witness: a stream has ended with the error event after a content
\* event, the save of the assistant message having failed.
C20_Witness ==
    \E c \in ChatSlots :
        /\ chat[c].pc = "ended"
        /\ ~chat[c].genFailed
        /\ chat[c].assistantId = 0
        /\ Len(chat[c].events) = 2
        /\ chat[c].events[1].type = "content"
        /\ chat[c].events[2] = ErrorEvent

AssistantMessagesAfter(u, id) ==
    SelectSeq(chatMessages,
              LAMBDA m : m.userId = u /\ m.role = "assistant" /\ m.id > id)

\* C26: a request saves an assistant message only once its stream has
\* completed and after its own user message; a request whose generation
\* failed, before or during streaming, saves none.
C26_AssistantOnlyAfterStream ==
    [][\A c \in ChatSlots :
          /\ (chat'[c] # chat[c]
                 /\ Len(AssistantMessages(chatMessages')) > Len(AssistantMessages(chatMessages)))
                => /\ chat[c].pc = "saveAssistant"
                   /\ ~chat[c].genFailed
                   /\ chat[c].msgId # 0
                   /\ chat[c].msgId < chatMessages'[Len(chatMessages')].id
          /\ chat'[c].genFailed => chat'[c].assistantId = 0
          /\ chat[c].pc = "stream" => chat'[c].pc \in {"stream", "saveAssistant", "ended"}
          /\ (chat'[c].pc = "saveAssistant" /\ chat[c].pc # "saveAssistant")
                => chat[c].pc = "stream" /\ ~chat'[c].genFailed]_vars

\* C26 witness: a request whose stream failed after a fragment is over; the
\* store holds its user message and no assistant message after it.
C26_Witness ==
    \E c \in ChatSlots :
        /\ chat[c].genFailed
        /\ chat[c].pc = "ended"
        /\ chat[c].fullResponse # <<>>
        /\ UserMessageStored(c)
        /\ AssistantMessagesAfter(chat[c].userId, chat[c].msgId) = <<>>

\* The chat messages of user u in the given table.
MessagesOf(table, u) == SelectSeq(table, LAMBDA m : m.userId = u)

\* C27: a clear removes every chat message of the requesting user and leaves
\* the messages of the other users as they are; whatever else is in flight,
\* the messages a user has in the store are those saved after the user's last
\* clear.
C27_ClearRemovesOwnMessagesOnly ==
    [][/\ \A u \in Users :
             clearedAt'[u] # clearedAt[u]
                => /\ MessagesOf(chatMessages', u) = <<>>
                   /\ \A v \in Users \ {u} :
                         MessagesOf(chatMessages', v) = MessagesOf(chatMessages, v)
       /\ \A i \in 1..Len(chatMessages') :
             /\ chatMessages'[i].id >= clearedAt'[chatMessages'[i].userId]
             /\ chatMessages'[i].id < nextChatId']_vars

\* C27 witness: a user cleared the chat while a request of that user was
\* streaming; the requests are over and only the assistant message saved
\* after the clear is left, next to the messages of the other user.
C27_Witness ==
    \E u \in Users :
        /\ clearedAt[u] > 0
        /\ \A c \in ChatSlots : chat[c].pc = "idle"
        /\ Len(MessagesOf(chatMessages, u)) = 1
        /\ MessagesOf(chatMessages, u)[1].role = "assistant"
        /\ \E v \in Users \ {u} : MessagesOf(chatMessages, v) # <<>>

\* C22: the scoreboard answered for a week start lists the WeeklyScore rows
\* of that week start and no other, one element per row with the row's user,
\* average and count, the averages never increasing down the list.
C22_ScoreboardIsTheWeekOrdered ==
    [][(board = NoBoard /\ board'.status = 200) =>
          LET rows == {w \in weeklyScores : w.weekStart = board'.weekStart}
              list == board'.scoreboard
          IN  /\ Len(list) = Cardinality(rows)
              /\ {list[i].userId : i \in 1..Len(list)} = {w.userId : w \in rows}
              /\ \A w \in rows : \E i \in 1..Len(list) :
                    /\ list[i].id = w.id
                    /\ list[i].userId = w.userId
                    /\ list[i].avgScore = w.avgScore
                    /\ list[i].totalEntries = w.totalEntries
              /\ \A i \in 1..Len(list) : \A j \in 1..Len(list) :
                    i < j => list[i].avgScore >= list[j].avgScore]_vars

\* C22 witness: a scoreboard with two users has been answered, the higher
\* average first.
C22_Witness ==
    /\ board.status = 200
    /\ Len(board.scoreboard) = 2
    /\ board.scoreboard[1].userId # board.scoreboard[2].userId
    /\ board.scoreboard[1].avgScore > board.scoreboard[2].avgScore

\* The registration handled in slot a asks for a username or an email that a
\* stored user other than the one it created holds.
RegistrationConflicts(a) ==
    \E u \in users :
        /\ u.id # auth[a].createdId
        /\ u.username = auth[a].username \/ u.email = auth[a].email

\* C23: a registration whose username or email is held by a user is
\* answered 409 and creates no user, however registrations interleave, and
\* no two stored users share a username or an email.
C23_DuplicateRegistrationIs409 ==
    /\ \A a \in AuthSlots :
          (auth[a].kind = "register" /\ auth[a].pc = "respond" /\ auth[a].status # 400
             /\ RegistrationConflicts(a))
            => auth[a].status = 409 /\ auth[a].createdId = 0
    /\ \A u \in users, v \in users :
          (u.username = v.username \/ u.email = v.email) => u = v

\* The answer given to every failed login.
InvalidCredentials == [status |-> 401, body |-> "Invalid credentials"]

UsernameKnown(name) == \E u \in users : u.username = name

PasswordRight(name, password) ==
    \E u \in users : u.username = name /\ u.password = Hash(password)

\* C24: a login with an unknown username and a login with a known username
\* and a wrong password are given the same answer, 401 with the same body,
\* and leave every session as it is.
C24_FailedLoginsLookAlike ==
    [][\A a \in AuthSlots :
          (auth[a].kind = "login" /\ auth'[a].pc = "respond" /\ auth[a].pc # "respond"
             /\ \/ ~UsernameKnown(auth[a].username)
                \/ ~PasswordRight(auth[a].username, auth[a].password))
            => /\ [status |-> auth'[a].status, body |-> auth'[a].body] = InvalidCredentials
               /\ sessions' = sessions]_vars

\* C24 witness: a login with an unknown username and a login with a wrong
\* password are being answered at the same time, with the same answer.
C24_Witness ==
    \E a \in AuthSlots, b \in AuthSlots :
        /\ auth[a].kind = "login" /\ auth[a].pc = "respond"
        /\ auth[b].kind = "login" /\ auth[b].pc = "respond"
        /\ ~UsernameKnown(auth[a].username)
        /\ UsernameKnown(auth[b].username)
        /\ ~PasswordRight(auth[b].username, auth[b].password)
        /\ auth[a].status = auth[b].status
        /\ auth[a].body = auth[b].body

\* The step leaves every table as it is.
StoreUnchanged ==
    UNCHANGED <<entries, dailyScores, weeklyScores, chatMessages, users, nextId, nextChatId>>

\* The step calls no generation service.
NoExternalCall ==
    /\ \A r \in Slots : req'[r].aiCalls <= req[r].aiCalls
    /\ \A c \in ChatSlots : chat'[c].aiCalls <= chat[c].aiCalls

\* No row is owned by, and no handler runs for, a session without a user.
NothingDoneUnauthenticated ==
    /\ \A e \in entries : e.userId # NoUser
    /\ \A d \in dailyScores : d.userId # NoUser
    /\ \A w \in weeklyScores : w.userId # NoUser
    /\ \A i \in 1..Len(chatMessages) : chatMessages[i].userId # NoUser
    /\ \A r \in Slots :
          (req[r].pc # "idle" /\ req[r].userId = NoUser)
            => req[r].pc = "respond" /\ req[r].status = 401 /\ req[r].aiCalls = 0
    /\ \A c \in ChatSlots :
          (chat[c].pc # "idle" /\ chat[c].userId = NoUser)
            => chat[c].pc = "ended" /\ chat[c].status = 401 /\ chat[c].aiCalls = 0
                 /\ chat[c].events = <<>>
    /\ (board # NoBoard /\ board.userId = NoUser) => board.status = 401
    /\ (http # NoAnswer /\ http.userId = NoUser)
          => http.status = 401 /\ http.rows = {} /\ http.messages = <<>>
    /\ (del # NoDelete /\ del.userId = NoUser) => del.status = 401

\* The step receives a request of a session without a user.
UnauthenticatedArrival ==
    \/ del' # del /\ del'.userId = NoUser
    \/ \E r \in Slots : req[r].pc = "idle" /\ req'[r].pc # "idle" /\ req'[r].userId = NoUser
    \/ \E c \in ChatSlots :
          chat[c].pc = "idle" /\ chat'[c].pc # "idle" /\ chat'[c].userId = NoUser
    \/ board = NoBoard /\ board' # NoBoard /\ board'.userId = NoUser
    \/ http = NoAnswer /\ http' # NoAnswer /\ http'.userId = NoUser

\* The step answers a login or a registration of client k with success.
SuccessfulLogin(k) ==
    \E a \in AuthSlots :
        /\ auth[a].client = k
        /\ auth[a].pc # "respond" /\ auth'[a].pc = "respond"
        /\ auth'[a].status \in {200, 201}

\* C25: a request to an entry, score, scoreboard or chat route whose session
\* has no user is answered 401, changes no table and calls no generation
\* service; a session without a user gets one only by a successful login or
\* registration of its client.
C25_UnauthenticatedIsRefused ==
    [][/\ NothingDoneUnauthenticated'
       /\ UnauthenticatedArrival => StoreUnchanged /\ NoExternalCall
       /\ \A k \in Clients :
             (sessions[k] = NoUser /\ sessions'[k] # NoUser) => SuccessfulLogin(k)]_vars

\* C25 witness: after the logout of every client, with entries, scores and
\* chat messages stored, the deletion of a stored entry is refused.
C25_Witness ==
    /\ \A k \in Clients : sessions[k] = NoUser
    /\ del.status = 401
    /\ \E e \in entries : e.id = del.id
    /\ dailyScores # {}
    /\ chatMessages # <<>>

\* The rows of user v in the four tables.
RowsOf(v) ==
    [entries |-> {e \in entries : e.userId = v},
     dailyScores |-> {d \in dailyScores : d.userId = v},
     weeklyScores |-> {w \in weeklyScores : w.userId = v},
     chatMessages |-> MessagesOf(chatMessages, v)]

\* The users whose request takes the step: of the score or chat request that
\* moves, of the deletion or read answered, of the chat cleared, of the
\* entry created.
Requesters ==
    {req'[r].userId : r \in {x \in Slots : req[x].pc = "idle" /\ req'[x].pc # "idle"}}
        \cup {req[r].userId : r \in {x \in Slots : req[x].pc # "idle" /\ req'[x] # req[x]}}
        \cup {chat'[c].userId :
                 c \in {x \in ChatSlots : chat[x].pc = "idle" /\ chat'[x].pc # "idle"}}
        \cup {chat[c].userId :
                 c \in {x \in ChatSlots : chat[x].pc # "idle" /\ chat'[x].pc # chat[x].pc}}
        \cup {del'.userId : x \in {y \in {1} : del' # del}}
        \cup {http'.userId : x \in {y \in {1} : http = NoAnswer /\ http' # NoAnswer}}
        \cup {u \in Users : clearedAt'[u] # clearedAt[u]}
        \cup {e.userId : e \in entries' \ entries}

\* What the requests being handled have read and what is being answered
\* belongs to the user of the request.
ReadsOwnRowsOnly ==
    /\ \A r \in Slots :
          /\ req[r].hadEntries =>
                \E e \in entries : e.userId = req[r].userId /\ e.date = req[r].date
          /\ req[r].pc \in {"wsSelect", "wsWrite"} =>
                req[r].count <= Cardinality({d \in dailyScores : d.userId = req[r].userId})
    /\ \A c \in ChatSlots :
          /\ \A i \in 1..Len(chat[c].history) : chat[c].history[i].userId = chat[c].userId
          /\ \A e \in chat[c].recentEntries : e.userId = chat[c].userId
          /\ \A d \in chat[c].recentScores : d.userId = chat[c].userId
    /\ \A row \in http.rows : row.userId = http.userId
    /\ \A i \in 1..Len(http.messages) : http.messages[i].userId = http.userId

\* C28: apart from the scoreboard, a step of a request of one user leaves
\* the entries, daily scores, weekly scores and chat messages of every other
\* user as they are, and what the request reads and what it is answered holds
\* rows of its own user only.
C28_UsersAreIsolated ==
    [][/\ \A v \in Users :
             (Requesters # {} /\ v \notin Requesters) => RowsOf(v)' = RowsOf(v)
       /\ ReadsOwnRowsOnly']_vars

\* C28 witness: a chat request of one user has read that user's entries of
\* the week for its prompt while the other user owns entries, a daily score,
\* a weekly score and chat messages.
C28_Witness ==
    \E c \in ChatSlots, v \in Users :
        /\ chat[c].pc = "create"
        /\ chat[c].recentEntries # {}
        /\ v # chat[c].userId
        /\ RowsOf(v).entries # {}
        /\ RowsOf(v).dailyScores # {}
        /\ RowsOf(v).weeklyScores # {}
        /\ RowsOf(v).chatMessages # <<>>

\* The slots whose send takes a fragment of the reply in the step.
FragmentTakenBy ==
    {s \in SendSlots : sends[s].pc = "read" /\ sends'[s].pc = "read"
                          /\ sends'[s].fullContent # sends[s].fullContent}

\* C29: while a reply is streamed, a fragment changes the content of no
\* bubble but the assistant bubble added for this reply, also when the history
\* arrives or the chat is cleared in between.
C29_FragmentsChangeOwnBubbleOnly ==
    [][\A s \in FragmentTakenBy :
          \A i \in 1..Len(messages) :
              (i <= Len(messages') /\ messages[i].id # <<"assistant", sends[s].n>>)
                => messages'[i].content = messages[i].content]_vars

\* The number of sends in progress.
SendsInFlight == Cardinality({s \in SendSlots : sends[s].pc # "idle"})

\* C30: at most one send is in progress; a send starts only while
\* isStreaming is false and the trimmed text is not empty; the step that ends
\* a send, by the end of the stream, a response that is not ok or a failed
\* read, leaves isStreaming and showTyping false; and every send started
\* ends.
C30_OneSendAtATime ==
    /\ [](SendsInFlight <= 1)
    /\ [][\A s \in SendSlots :
            /\ (sends[s].pc = "idle" /\ sends'[s].pc # "idle")
                 => ~isStreaming /\ Trim(inputText) # <<>>
            /\ (sends[s].pc # "idle" /\ sends'[s].pc = "idle")
                 => ~isStreaming' /\ ~showTyping']_vars
    /\ \A s \in SendSlots :
          (sends[s].pc # "idle") ~> (sends[s].pc = "idle" /\ ~isStreaming /\ ~showTyping)

\* C30 witness: a second send has been started after the first one ended,
\* and a press on send is ignored while it is in progress and text is typed.
C30_Witness ==
    /\ sendCount = 2
    /\ SendsInFlight = 1
    /\ isStreaming
    /\ Trim(inputText) # <<>>

====
